---------------------------- MODULE Spec2Model ----------------------------
(* A model of the text-to-search pipeline of the legal document search    *)
(* program: TextProcessor (utils/text_utils.py), PDFProcessor             *)
(* (services/pdf_processor.py), SearchService (services/search_service.py)*)
(* and the index service it talks to, and LegalDocumentSearchApp          *)
(* (main.py) with its explanation decoder.                                *)
(*                                                                        *)
(* A text is a sequence of characters; a character is a one-element       *)
(* string token.  Hangul syllables are written romanised ("seu" "to"      *)
(* "king" is the three-character keyword of the stalking group), since    *)
(* only their identity matters to the code.                               *)
EXTENDS Integers, Sequences, FiniteSets, TLC

VARIABLES
    pc,         \* position of the call in progress
    text,       \* the text argument of the TextProcessor call
    params,     \* the other arguments of the call (a record)
    result,     \* the value the call returned
    result2,    \* the value of a second call applied to result
    start,      \* split_into_chunks: local start
    chunks,     \* split_into_chunks: local chunks
    spans,      \* split_into_chunks: <<start, end>> of text each kept chunk was cut from
    truncated,  \* split_into_chunks: TRUE once the record of chunks is full
    tick,       \* split_into_chunks: flips at every iteration of the loop
    client,     \* ElasticsearchClient.client is set (FALSE: None, the connection failed)
    esIndexName,\* ElasticsearchClient.index_name, read from the configuration
    indices,    \* the index service: for each index name, the index it holds
    call,       \* the last call of a SearchService method: arguments, requests, return value
    explanation,\* _print_explanation: the explanation argument
    stack,      \* _print_explanation_recursive: the calls still to make, the next one first
    out,        \* _print_explanation: the lines printed
    status,     \* _print_explanation: position of the call
    pdf,        \* extract_text_from_pdf: what the file at pdf_path holds
    pages_done, \* extract_text_from_pdf: pages of the loop already handled
    page_docs,  \* extract_text_from_pdf: local documents
    extracted,  \* extract_text_from_pdf: position of the call, and how it ended
    is_initialized, \* LegalDocumentSearchApp.is_initialized
    appCall,    \* the last call of a LegalDocumentSearchApp method
    argv,       \* main: sys.argv[1:], the arguments of the program
    mainPc,     \* main: position of the program
    user_input, \* interactive_search: the line read last, stripped
    acts        \* main: what the last line, or the arguments, made the program do

textVars  == <<pc, text, params, result, result2>>
chunkVars == <<start, chunks, spans, truncated, tick>>
svcVars   == <<client, esIndexName, indices, call>>
explVars  == <<explanation, stack, out, status>>
pdfVars   == <<pdf, pages_done, page_docs, extracted>>
appVars   == <<is_initialized, appCall>>
mainVars  == <<argv, mainPc, user_input, acts>>
vars      == <<pc, text, params, result, result2, start, chunks, spans, truncated, tick,
               client, esIndexName, indices, call,
               explanation, stack, out, status, pdf, pages_done, page_docs, extracted,
               is_initialized, appCall, argv, mainPc, user_input, acts>>

-----------------------------------------------------------------------------
(* Bounds of the model.                                                   *)

MaxTextLen == 4      \* longest text given to clean_text

-----------------------------------------------------------------------------
(* Characters.                                                            *)

\* Characters matched by \w (letters, digits, underscore, Hangul syllables).
WordChars == {"a", "b", "A", "x", "_",
              "seu", "to", "king", "goe", "rop", "him", "chu", "jeok", "gam",
              "si", "jeop", "geun", "geum", "ji", "seong", "pok", "ryeok",
              "haeng", "hui", "rong", "gang", "gan", "do", "bak", "sa", "ka",
              "no", "gyeong", "ma", "bok", "gwon", "ge", "im", "ga"}

\* Characters matched by \s and removed by str.strip().
SpaceChars == {" ", "\n", "\t"}

IsSpace(c) == c \in SpaceChars

IsWord(c) == c \in WordChars

\* All texts over alphabet A of length at most n.
Texts(A, n) == UNION {[1..k -> A] : k \in 0..n}

-----------------------------------------------------------------------------
(* TextProcessor.clean_text                                               *)

RECURSIVE DropSpaces(_)
\* s without its leading whitespace (str.lstrip, and the rest of a \s+ run).
DropSpaces(s) ==
    IF s = <<>> THEN <<>>
    ELSE IF IsSpace(Head(s)) THEN DropSpaces(Tail(s)) ELSE s

RECURSIVE CollapseSpaces(_)
\* re.sub(r'\s+', ' ', s): every maximal run of whitespace becomes one blank.
CollapseSpaces(s) ==
    IF s = <<>> THEN <<>>
    ELSE IF IsSpace(Head(s)) THEN <<" ">> \o CollapseSpaces(DropSpaces(s))
    ELSE <<Head(s)>> \o CollapseSpaces(Tail(s))

RECURSIVE DropTrailingSpaces(_)
\* str.rstrip
DropTrailingSpaces(s) ==
    IF s = <<>> THEN <<>>
    ELSE IF IsSpace(s[Len(s)]) THEN DropTrailingSpaces(SubSeq(s, 1, Len(s) - 1))
    ELSE s

\* str.strip
Strip(s) == DropTrailingSpaces(DropSpaces(s))

\* re.sub(r'[^\w\s...]', ' ', s): every character that is neither a word
\* character nor whitespace becomes a blank; nothing is removed.
BlankSpecials(s) ==
    [i \in 1..Len(s) |-> IF IsWord(s[i]) \/ IsSpace(s[i]) THEN s[i] ELSE " "]

\* A plausible other clean_text: the special characters are blanked first,
\* the whitespace collapsed and the ends stripped after it.
clean_text_blank_first(t) ==
    IF t = <<>> THEN <<>> ELSE Strip(CollapseSpaces(BlankSpecials(t)))

clean_text(t) ==
    IF t = <<>> THEN <<>> ELSE BlankSpecials(Strip(CollapseSpaces(t)))

RECURSIVE SplitWords(_, _)
\* str.split(): the maximal runs of non-whitespace of s, in order
\* (cur is the word being read).
SplitWords(s, cur) ==
    IF s = <<>> THEN (IF cur = <<>> THEN <<>> ELSE <<cur>>)
    ELSE IF IsSpace(Head(s))
         THEN (IF cur = <<>> THEN <<>> ELSE <<cur>>) \o SplitWords(Tail(s), <<>>)
         ELSE SplitWords(Tail(s), Append(cur, Head(s)))

extract_keywords(t, min_length) ==
    IF t = <<>> THEN <<>>
    ELSE SelectSeq(SplitWords(clean_text(t), <<>>), LAMBDA w : Len(w) >= min_length)

-----------------------------------------------------------------------------
(* Idle values of the parts of the state a specification does not use.    *)

NoParams == [none |-> TRUE]

ChunkIdle ==
    start = 0 /\ chunks = <<>> /\ spans = <<>> /\ truncated = FALSE /\ tick = FALSE

TextIdle ==
    pc = "idle" /\ text = <<>> /\ params = NoParams /\ result = <<>> /\ result2 = <<>>

\* SearchService.index_name
ServiceIndexName == "legal_documents_v2"

\* The default of ElasticsearchConfig.index_name; the environment variable
\* ELASTICSEARCH_INDEX may name another index, here the service's.
DefaultIndexName == "legal_documents"

\* The names of the two indices the program knows.
IndexNames == {DefaultIndexName, ServiceIndexName}

NoIndex == [exists |-> FALSE, schema |-> "none", docs |-> <<>>]

NoCategory == ""

\* No request body built.
NoRequest == [size |-> 0]

\* failed names the request of the call that raised ("none": no request
\* raised); raised tells that the call ended by an exception.
NoCall == [op |-> "none", query |-> <<>>, size |-> 0, category |-> NoCategory,
           recreate |-> FALSE, ret |-> <<>>, ok |-> FALSE, issued |-> <<>>,
           request |-> NoRequest, failed |-> "none", raised |-> FALSE]

\* No call of the application made.
NoAppCall == [op |-> "none", initialized |-> FALSE, ok |-> FALSE, ret |-> <<>>,
              raised |-> FALSE, logged |-> "none", printed |-> "none", issued |-> <<>>]

SvcIdle ==
    /\ client = FALSE
    /\ esIndexName = DefaultIndexName
    /\ indices = [n \in IndexNames |-> NoIndex]
    /\ call = NoCall
    /\ is_initialized = FALSE
    /\ appCall = NoAppCall

\* The explanation {}: no value, no description, no details.
EmptyExplanation ==
    [hasValue |-> FALSE, value |-> 0,
     description |-> [pieces |-> <<>>, colon |-> FALSE],
     detailsKind |-> "none", details |-> <<>>]

ExplIdle ==
    explanation = EmptyExplanation /\ stack = <<>> /\ out = <<>> /\ status = "idle"

MainIdle ==
    /\ argv = <<>>
    /\ mainPc = "idle"
    /\ user_input = <<>>
    /\ acts = <<>>

PdfIdle ==
    pdf = <<>> /\ pages_done = 0 /\ page_docs = <<>> /\ extracted = "idle"

-----------------------------------------------------------------------------
(* SpecClean: clean_text and extract_keywords applied to every text.      *)

CleanAlphabet == {"a", "ga", " ", "\n", ".", "-"}

CleanInit ==
    /\ pc = "ready"
    /\ text \in Texts(CleanAlphabet, MaxTextLen)
    /\ params = NoParams
    /\ result = <<>>
    /\ result2 = <<>>
    /\ ChunkIdle
    /\ SvcIdle
    /\ ExplIdle
    /\ PdfIdle
    /\ MainIdle

\* result = clean_text(text)
CleanText ==
    /\ pc = "ready"
    /\ result' = clean_text(text)
    /\ pc' = "cleaned"
    /\ UNCHANGED <<text, params, result2, chunkVars, svcVars, appVars, explVars, pdfVars, mainVars>>

\* result2 = clean_text(result)
CleanAgain ==
    /\ pc = "cleaned"
    /\ result2' = clean_text(result)
    /\ pc' = "recleaned"
    /\ UNCHANGED <<text, params, result, chunkVars, svcVars, appVars, explVars, pdfVars, mainVars>>

\* result = extract_keywords(text, min_length)
ExtractKeywords ==
    /\ pc = "ready"
    /\ \E m \in 1..2 :
        /\ params' = [min_length |-> m]
        /\ result' = extract_keywords(text, m)
    /\ pc' = "keywords"
    /\ UNCHANGED <<text, result2, chunkVars, svcVars, appVars, explVars, pdfVars, mainVars>>

CleanNext == CleanText \/ CleanAgain \/ ExtractKeywords

SpecClean == CleanInit /\ [][CleanNext]_vars

\* C5: clean_text is idempotent: cleaning a cleaned text changes nothing,
\* also for texts with special characters at the ends or between words.
CleanIdempotent == pc = "recleaned" => result2 = result

-----------------------------------------------------------------------------
(* TextProcessor.categorize_content                                       *)

\* str.lower() on one character: only cased letters change.
LowerChar(c) == IF c = "A" THEN "a" ELSE c

Lower(t) == [i \in 1..Len(t) |-> LowerChar(t[i])]

\* Python's `kw in t` for strings: kw occurs in t as a substring.
Contains(t, kw) ==
    \E i \in 0..(Len(t) - Len(kw)) : SubSeq(t, i + 1, i + Len(kw)) = kw

stalking_keywords ==
    << <<"seu", "to", "king">>, <<"goe", "rop", "him">>, <<"chu", "jeok">>,
       <<"gam", "si">>, <<"jeop", "geun", "geum", "ji">> >>

violence_keywords ==
    << <<"seong", "pok", "ryeok">>, <<"seong", "chu", "haeng">>,
       <<"seong", "hui", "rong">>, <<"gang", "gan">>, <<"chu", "haeng">> >>

gambling_keywords ==
    << <<"do", "bak">>, <<"sa", "haeng">>, <<"ka", "ji", "no">>,
       <<"gyeong", "ma">>, <<"bok", "gwon">>, <<"ge", "im">> >>

\* sum(1 for keyword in kws if keyword in t)
KeywordCount(kws, t) ==
    Cardinality({i \in 1..Len(kws) : Contains(t, kws[i])})

\* The category labels.
Stalking == "seutoking"
Violence == "seongpokryeok"
Gambling == "sahaengsaneop"
Other    == "gita"

\* The if/elif chain of categorize_content on the three counts.
PickCategory(s, v, g) ==
    IF s >= v /\ s >= g THEN Stalking
    ELSE IF v >= s /\ v >= g THEN Violence
    ELSE IF g >= s /\ g >= v THEN Gambling
    ELSE Other

\* A plausible other chain: the first comparison is strict.
categorize_content_strict(t) ==
    LET s == KeywordCount(stalking_keywords, Lower(t))
        v == KeywordCount(violence_keywords, Lower(t))
        g == KeywordCount(gambling_keywords, Lower(t))
    IN  IF s > v /\ s >= g THEN Stalking
        ELSE IF v >= s /\ v >= g THEN Violence
        ELSE Gambling

categorize_content(t) ==
    LET text_lower == Lower(t)
    IN  PickCategory(KeywordCount(stalking_keywords, text_lower),
                     KeywordCount(violence_keywords, text_lower),
                     KeywordCount(gambling_keywords, text_lower))

-----------------------------------------------------------------------------
(* SpecCat: categorize_content applied to texts made of group keywords    *)
(* and other words.                                                       *)

MaxWords == 3        \* most words in a text given to categorize_content

\* The words the texts are made of: every group keyword, and filler.
CatWords ==
    {stalking_keywords[i] : i \in 1..Len(stalking_keywords)}
        \cup {violence_keywords[i] : i \in 1..Len(violence_keywords)}
        \cup {gambling_keywords[i] : i \in 1..Len(gambling_keywords)}
        \cup {<<" ">>, <<"A", "x">>}

RECURSIVE Flatten(_)
Flatten(ws) == IF ws = <<>> THEN <<>> ELSE Head(ws) \o Flatten(Tail(ws))

CatTexts == {Flatten(ws) : ws \in Texts(CatWords, MaxWords)}

CatInit ==
    /\ pc = "ready"
    /\ text \in CatTexts
    /\ params = NoParams
    /\ result = <<>>
    /\ result2 = <<>>
    /\ ChunkIdle
    /\ SvcIdle
    /\ ExplIdle
    /\ PdfIdle
    /\ MainIdle

\* result = categorize_content(text)
Categorize ==
    /\ pc = "ready"
    /\ result' = categorize_content(text)
    /\ pc' = "categorized"
    /\ UNCHANGED <<text, params, result2, chunkVars, svcVars, appVars, explVars, pdfVars, mainVars>>

CatNext == Categorize

SpecCat == CatInit /\ [][CatNext]_vars

\* The three counts of the text of the call, counted on the text itself.
CountOf(group) ==
    Cardinality({i \in 1..Len(group) : Contains(Lower(text), group[i])})

NoKeywordOccurs ==
    /\ CountOf(stalking_keywords) = 0
    /\ CountOf(violence_keywords) = 0
    /\ CountOf(gambling_keywords) = 0

\* C3: a text in which no keyword of any group occurs is labelled Other.
CatOtherWhenNoKeyword ==
    (pc = "categorized" /\ NoKeywordOccurs) => result = Other

\* The groups in priority order, with their labels.
GroupOrder == <<stalking_keywords, violence_keywords, gambling_keywords>>
GroupLabel == <<Stalking, Violence, Gambling>>

\* The first group in priority order whose count no other group exceeds.
BestGroup ==
    CHOOSE i \in 1..3 :
        /\ \A j \in 1..3 : CountOf(GroupOrder[j]) <= CountOf(GroupOrder[i])
        /\ \A j \in 1..(i - 1) : CountOf(GroupOrder[j]) < CountOf(GroupOrder[i])

\* C4: when some keyword occurs, the label is that of the group with the
\* largest count, the earliest in the order stalking, violence, gambling
\* among the groups that share it.
CatLargestCountWins ==
    (pc = "categorized" /\ ~NoKeywordOccurs) => result = GroupLabel[BestGroup]

\* C4 witness: violence and gambling tie above stalking, and violence wins.
CatTieWitness ==
    /\ pc = "categorized"
    /\ CountOf(violence_keywords) = CountOf(gambling_keywords)
    /\ CountOf(violence_keywords) > CountOf(stalking_keywords)
    /\ result = Violence

-----------------------------------------------------------------------------
(* TextProcessor.highlight_text                                           *)

\* Python's t[a:b] for 0 <= a and 0 <= b (positions counted from 0); empty
\* when b <= a, cut at the end of t.
Slice(t, a, b) ==
    LET e == IF b > Len(t) THEN Len(t) ELSE b
    IN  IF a >= e THEN <<>> ELSE SubSeq(t, a + 1, e)

\* str.find: the position, from 0, of the first occurrence of kw in t
\* (kw occurs in t).
Find(t, kw) ==
    CHOOSE i \in 0..(Len(t) - Len(kw)) :
        /\ SubSeq(t, i + 1, i + Len(kw)) = kw
        /\ \A j \in 0..(i - 1) : SubSeq(t, j + 1, j + Len(kw)) # kw

RECURSIVE Replace(_, _, _)
\* str.replace for a non-empty kw: every occurrence of kw in s, found from
\* the left without overlap, becomes rep.
Replace(s, kw, rep) ==
    IF Len(s) < Len(kw) THEN s
    ELSE IF SubSeq(s, 1, Len(kw)) = kw
         THEN rep \o Replace(SubSeq(s, Len(kw) + 1, Len(s)), kw, rep)
         ELSE <<Head(s)>> \o Replace(Tail(s), kw, rep)

Ellipsis == <<".", ".", ".">>

\* f"**{keyword}**"
Emphasised(kw) == <<"*", "*">> \o kw \o <<"*", "*">>

\* A plausible other truncation: the marker is added from length n on.
TruncateFromN(t, n) ==
    IF Len(t) >= n THEN Slice(t, 0, n) \o Ellipsis ELSE t

\* text[:max_length] + "..." if len(text) > max_length else text
Truncate(t, n) ==
    IF Len(t) > n THEN Slice(t, 0, n) \o Ellipsis ELSE t

\* The body of the for loop for the keyword found in the text.
HighlightAround(t, keyword, max_length) ==
    LET pos   == Find(t, keyword)
        half  == max_length \div 2
        from  == IF pos - half > 0 THEN pos - half ELSE 0
        to    == IF pos + half < Len(t) THEN pos + half ELSE Len(t)
        shown == Replace(Slice(t, from, to), keyword, Emphasised(keyword))
    IN  (IF from > 0 THEN Ellipsis ELSE <<>>)
            \o shown
            \o (IF to < Len(t) THEN Ellipsis ELSE <<>>)

\* Positions in the list of the keywords that occur in t.
Occurring(t, keywords) == {i \in 1..Len(keywords) : Contains(t, keywords[i])}

FirstOf(S) == CHOOSE i \in S : \A j \in S : i <= j

highlight_text(t, keywords, max_length) ==
    IF t = <<>> \/ keywords = <<>> THEN Truncate(t, max_length)
    ELSE IF Occurring(t, keywords) = {} THEN Truncate(t, max_length)
    ELSE HighlightAround(t, keywords[FirstOf(Occurring(t, keywords))], max_length)

-----------------------------------------------------------------------------
(* SpecHL: highlight_text applied to texts, keyword lists and lengths.    *)

MaxHLText == 4       \* longest text given to highlight_text
MaxKeywordLen == 2   \* longest keyword

HLAlphabet == {"a", "b"}

\* Keywords are non-empty words, as extract_keywords produces them.
HLKeywords == Texts(HLAlphabet, MaxKeywordLen) \ {<<>>}

\* Keyword lists of none, one and two keywords.
HLKeywordLists ==
    {<<>>} \cup {<<k>> : k \in HLKeywords}
           \cup {<<k1, k2>> : k1 \in HLKeywords, k2 \in HLKeywords}

HLInit ==
    /\ pc = "ready"
    /\ text \in Texts(HLAlphabet, MaxHLText)
    /\ params \in [keywords : HLKeywordLists, max_length : 0..(MaxHLText + 1)]
    /\ result = <<>>
    /\ result2 = <<>>
    /\ ChunkIdle
    /\ SvcIdle
    /\ ExplIdle
    /\ PdfIdle
    /\ MainIdle

\* result = highlight_text(text, keywords, max_length)
Highlight ==
    /\ pc = "ready"
    /\ result' = highlight_text(text, params.keywords, params.max_length)
    /\ pc' = "highlighted"
    /\ UNCHANGED <<text, params, result2, chunkVars, svcVars, appVars, explVars, pdfVars, mainVars>>

HLNext == Highlight

SpecHL == HLInit /\ [][HLNext]_vars

\* The first keyword of the list, in list order, that occurs in the text.
FirstKeyword ==
    params.keywords[CHOOSE i \in 1..Len(params.keywords) :
        /\ Contains(text, params.keywords[i])
        /\ \A j \in 1..(i - 1) : ~Contains(text, params.keywords[j])]

SomeKeywordOccurs ==
    \E i \in 1..Len(params.keywords) : Contains(text, params.keywords[i])

\* C9: when a keyword of the list occurs in the text, the excerpt holds the
\* first such keyword wrapped in emphasis markers, whatever the keyword's
\* length and max_length are.
HLEmphasisesKeyword ==
    (pc = "highlighted" /\ SomeKeywordOccurs)
        => Contains(result, Emphasised(FirstKeyword))

\* Number of emphasis marker characters in s.
Stars(s) == Cardinality({i \in 1..Len(s) : s[i] = "*"})

\* C10: with an empty keyword list the result is the first max_length
\* characters of the text, followed by the ellipsis marker exactly when the
\* text is longer than max_length, and holds no emphasis marker.
HLEmptyKeywordsTruncates ==
    (pc = "highlighted" /\ params.keywords = <<>>)
        => LET n == params.max_length
               k == IF Len(text) < n THEN Len(text) ELSE n
           IN  /\ Len(result) = k + (IF Len(text) > n THEN 3 ELSE 0)
               /\ \A i \in 1..k : result[i] = text[i]
               /\ \A i \in (k + 1)..Len(result) : result[i] = "."
               /\ Stars(result) = 0

\* C10 witness: both cases of the truncation with an empty keyword list, here
\* a text cut to max_length characters and the marker.
HLEmptyKeywordsWitness ==
    /\ pc = "highlighted"
    /\ params.keywords = <<>>
    /\ Len(text) > params.max_length
    /\ params.max_length > 0
    /\ result = SubSeq(text, 1, params.max_length) \o <<".", ".", ".">>

-----------------------------------------------------------------------------
(* TextProcessor.split_into_chunks                                        *)

MaxChunkText == 5    \* longest text given to split_into_chunks
MaxChunkSize == 3    \* largest max_chunk_size
MaxOverlap == 3      \* largest overlap

\* The model records at most this many chunks; no call that returns makes
\* more (NeverTruncatedOnReturn).  A loop that goes on appending sets
\* truncated and keeps the chunks recorded so far; tick tells its iterations
\* apart, each of which is a step of the program.
MaxChunks == MaxChunkText + 1

\* A plausible other test of the early return: texts of exactly
\* max_chunk_size characters go through the loop.
IsShortStrict(t, max_chunk_size) == Len(t) < max_chunk_size

\* len(text) <= max_chunk_size
IsShort(t, max_chunk_size) == Len(t) <= max_chunk_size

\* text.rfind(' ', lo, hi): the last position p, lo <= p < hi, that holds a
\* blank, or -1.
RFindBlank(t, lo, hi) ==
    LET P == {p \in lo..(hi - 1) : t[p + 1] = " "}
    IN  IF P = {} THEN -1 ELSE CHOOSE p \in P : \A q \in P : q <= p

\* The end of the window that starts at st: at most max_chunk_size
\* characters, cut back to the last blank after st when the text goes on.
WindowEnd(t, st, max_chunk_size) ==
    LET e == IF st + max_chunk_size < Len(t) THEN st + max_chunk_size ELSE Len(t)
        last_space == RFindBlank(t, st, e)
    IN  IF e < Len(t) /\ last_space > st THEN last_space ELSE e

ChunkAlphabet == {"a", "b", " "}

ChunkInit ==
    /\ pc = "ready"
    /\ text \in Texts(ChunkAlphabet, MaxChunkText)
    /\ params \in [max_chunk_size : 1..MaxChunkSize, overlap : 0..MaxOverlap]
    /\ result = <<>>
    /\ result2 = <<>>
    /\ ChunkIdle
    /\ SvcIdle
    /\ ExplIdle
    /\ PdfIdle
    /\ MainIdle

\* The call up to the loop: the two early returns, or chunks = [], start = 0.
SplitCall ==
    /\ pc = "ready"
    /\ IF text = <<>>
       THEN pc' = "done" /\ result' = <<>>
       ELSE IF IsShort(text, params.max_chunk_size)
       THEN pc' = "done" /\ result' = <<text>>
       ELSE pc' = "loop" /\ result' = result
    /\ UNCHANGED <<text, params, result2, chunkVars, svcVars, appVars, explVars, pdfVars, mainVars>>

\* One iteration of the while loop, with its break.
SplitIterate ==
    /\ pc = "loop"
    /\ start < Len(text)
    /\ LET end   == WindowEnd(text, start, params.max_chunk_size)
           chunk == Strip(Slice(text, start, end))
           keep  == chunk # <<>> /\ Len(chunks) < MaxChunks
           next  == IF keep THEN Append(chunks, chunk) ELSE chunks
       IN  /\ chunks' = next
           /\ spans' = IF keep THEN Append(spans, <<start, end>>) ELSE spans
           /\ truncated' = (truncated \/ (chunk # <<>> /\ Len(chunks) >= MaxChunks))
           /\ start' = end - params.overlap
           /\ tick' = ~tick
           /\ IF end - params.overlap <= 0
              THEN pc' = "done" /\ result' = next
              ELSE pc' = "loop" /\ result' = result
    /\ UNCHANGED <<text, params, result2, svcVars, appVars, explVars, pdfVars, mainVars>>

\* The loop condition fails: return chunks.
SplitReturn ==
    /\ pc = "loop"
    /\ start >= Len(text)
    /\ pc' = "done"
    /\ result' = chunks
    /\ UNCHANGED <<text, params, result2, chunkVars, svcVars, appVars, explVars, pdfVars, mainVars>>

ChunkNext == SplitCall \/ SplitIterate \/ SplitReturn

SpecChunk == ChunkInit /\ [][ChunkNext]_vars

\* The interpreter runs the call to its end: a step that can be taken is taken.
FairSpecChunk == ChunkInit /\ [][ChunkNext]_vars /\ WF_vars(ChunkNext)

\* Every call that returns has all its chunks on record.
NeverTruncatedOnReturn == pc = "done" => ~truncated

\* C6: split_into_chunks terminates on every text, for every
\* max_chunk_size >= 1 and overlap >= 0.
SplitTerminates == <>(pc = "done")

\* C7 as stated: every text of at most max_chunk_size characters, the empty
\* text included, comes back as the one-element list of itself.
SplitShortIsSingleton ==
    (pc = "done" /\ Len(text) <= params.max_chunk_size) => result = <<text>>

\* C7 amended: a non-empty text of at most max_chunk_size characters comes
\* back as the one-element list of itself, unchanged; the empty text comes
\* back as the empty list.
SplitShortIsSingletonOrEmpty ==
    (pc = "done" /\ Len(text) <= params.max_chunk_size)
        => result = (IF Len(text) = 0 THEN <<>> ELSE <<text>>)

\* C7 witness: a text of exactly max_chunk_size characters that begins with
\* a blank came back whole.
SplitShortWitness ==
    /\ pc = "done"
    /\ Len(text) = params.max_chunk_size
    /\ Len(text) >= 2
    /\ text[1] = " "
    /\ result = <<text>>

\* Position p (from 0) of the text lies in one of the spans the chunks were
\* cut from.
Covered(p) == \E i \in 1..Len(spans) : spans[i][1] <= p /\ p < spans[i][2]

\* C8: when the call returns, the chunks are pieces of the text in order
\* and every non-whitespace character of the text lies in one of them.
SplitCoversText ==
    (pc = "done" /\ ~IsShort(text, params.max_chunk_size) /\ ~truncated)
        => /\ Len(result) = Len(spans)
           /\ \A i \in 1..Len(spans) :
                  result[i] = Strip(Slice(text, spans[i][1], spans[i][2]))
           /\ \A i \in 1..(Len(spans) - 1) : spans[i][1] <= spans[i + 1][1]
           /\ \A p \in 0..(Len(text) - 1) : IsSpace(text[p + 1]) \/ Covered(p)

-----------------------------------------------------------------------------
(* SearchService and ElasticsearchClient over the index service.          *)

MaxDocs == 4         \* most documents one index holds in the model

\* Document(title, content, page_number, category, file_path)
Document(title, content, page_number, category, file_path) ==
    [title |-> title, content |-> content, page_number |-> page_number,
     category |-> category, file_path |-> file_path]

\* The records extract_text_from_pdf makes of the two pages of the PDF.
PdfDocuments ==
    << Document(<<"seu", "to", "king">>, <<"seu", "to", "king", " ", "chu", "jeok">>,
                1, Stalking, "laws.pdf"),
       Document(<<"gang", "gan">>, <<"gang", "gan">>, 2, Violence, "laws.pdf") >>

Request(req, index) == [req |-> req, index |-> index]

\* The subsequence of seq at the positions in S, in order.
RECURSIVE Pick(_, _, _)
Pick(seq, S, i) ==
    IF i > Len(seq) THEN <<>>
    ELSE (IF i \in S THEN <<seq[i]>> ELSE <<>>) \o Pick(seq, S, i + 1)

\* A method that lets the exception of a request through.
PropagatesUncaught(failed) == failed # "none"

\* try: ... except Exception as e: logger.error(...); return ...: the
\* exception of a request does not leave the method.
Propagates(failed) == FALSE

\* A search whose request is sent again when it raised.
SearchRequestsRetried(name, fails) ==
    IF fails THEN <<Request("search", name), Request("search", name)>>
    ELSE <<Request("search", name)>>

\* The requests of one search: self.es_client.client.search(...), once.
SearchRequests(name, fails) == <<Request("search", name)>>

\* A creation that deletes whatever index exists.
DeletesExistingAlways(recreate, exists) == exists

\* if recreate and ...indices.exists(index=...): ...indices.delete(...)
DeletesExisting(recreate, exists) == recreate /\ exists

\* SearchService._create_index_with_nori: the indices after it, whether it
\* returned True, and the requests it issued.  fails: the index service
\* raises at the first request.
CreateIndexWithNori(idx, recreate, fails) ==
    LET name == ServiceIndexName
        ex   == Request("exists", name)
    IN  IF ~client THEN [ok |-> FALSE, indices |-> idx, issued |-> <<>>]
        ELSE IF fails THEN [ok |-> FALSE, indices |-> idx, issued |-> <<ex>>]
        ELSE IF DeletesExisting(recreate, idx[name].exists)
        THEN [ok |-> TRUE,
              indices |-> [idx EXCEPT ![name] =
                              [exists |-> TRUE, schema |-> "korean_legal", docs |-> <<>>]],
              issued |-> <<ex, Request("delete", name), ex, Request("create", name)>>]
        ELSE IF idx[name].exists
        THEN [ok |-> TRUE, indices |-> idx,
              issued |-> IF recreate THEN <<ex, ex>> ELSE <<ex>>]
        ELSE [ok |-> TRUE,
              indices |-> [idx EXCEPT ![name] =
                              [exists |-> TRUE, schema |-> "korean_legal", docs |-> <<>>]],
              issued |-> (IF recreate THEN <<ex, ex>> ELSE <<ex>>)
                            \o <<Request("create", name)>>]

\* ElasticsearchClient.create_index(delete_existing) on the client's own
\* index, created with the settings of the configuration.
CreateIndex(idx, delete_existing, fails) ==
    LET name == esIndexName
        ex   == Request("exists", name)
        made == [exists |-> TRUE, schema |-> "configured", docs |-> <<>>]
    IN  IF ~client THEN [ok |-> FALSE, indices |-> idx, issued |-> <<>>]
        ELSE IF fails THEN [ok |-> FALSE, indices |-> idx, issued |-> <<ex>>]
        ELSE IF DeletesExisting(delete_existing, idx[name].exists)
        THEN [ok |-> TRUE, indices |-> [idx EXCEPT ![name] = made],
              issued |-> <<ex, Request("delete", name), ex, Request("create", name)>>]
        ELSE IF idx[name].exists
        THEN [ok |-> TRUE, indices |-> idx,
              issued |-> IF delete_existing THEN <<ex, ex>> ELSE <<ex>>]
        ELSE [ok |-> TRUE, indices |-> [idx EXCEPT ![name] = made],
              issued |-> (IF delete_existing THEN <<ex, ex>> ELSE <<ex>>)
                            \o <<Request("create", name)>>]

\* ElasticsearchClient.delete_index on the client's own index.
DeleteIndex(idx, fails) ==
    LET name == esIndexName
        ex   == Request("exists", name)
    IN  IF ~client THEN [ok |-> FALSE, indices |-> idx, issued |-> <<>>]
        ELSE IF fails THEN [ok |-> FALSE, indices |-> idx, issued |-> <<ex>>]
        ELSE IF idx[name].exists
        THEN [ok |-> TRUE, indices |-> [idx EXCEPT ![name] = NoIndex],
              issued |-> <<ex, Request("delete", name)>>]
        ELSE [ok |-> TRUE, indices |-> idx, issued |-> <<ex>>]

\* ElasticsearchClient.get_document_count: the count request goes to the
\* client's own index; a missing index or a failing request counts as 0.
GetDocumentCount(idx, fails) ==
    IF ~client \/ fails \/ ~idx[esIndexName].exists THEN 0
    ELSE Len(idx[esIndexName].docs)

\* A bulk submission that succeeds when the request did not raise.
BulkSucceededUnlessRaised(outcome) == outcome # "raise"

\* if response.get('errors'): ... return False; otherwise return True
BulkSucceeded(outcome) == outcome = "ok"

\* ElasticsearchClient.bulk_index_documents on a non-empty list: every
\* action of the bulk request names the client's own index, which the index
\* service creates with a default schema when it does not exist.  outcome
\* "raise": the request fails; "partial": the documents at the positions in
\* accepted are stored, the others rejected; "ok": all are stored.
BulkIndexDocuments(idx, documents, outcome, accepted) ==
    LET name   == esIndexName
        rq     == <<Request("bulk", name)>>
        stored == IF outcome = "partial" THEN Pick(documents, accepted, 1) ELSE documents
        old    == IF idx[name].exists THEN idx[name]
                  ELSE [exists |-> TRUE, schema |-> "dynamic", docs |-> <<>>]
    IN  IF ~client THEN [ok |-> FALSE, indices |-> idx, issued |-> <<>>]
        ELSE IF outcome = "raise" THEN [ok |-> FALSE, indices |-> idx, issued |-> rq]
        ELSE [ok |-> BulkSucceeded(outcome),
              indices |-> [idx EXCEPT ![name] = [old EXCEPT !.docs = old.docs \o stored]],
              issued |-> rq]

\* The faults one run of initialize_index can meet.
Faults == {"none", "create", "count", "extract", "raise", "partial"}

\* SearchService.initialize_index(pdf_path, recreate) meeting fault, the
\* index service accepting the documents at the positions in accepted when
\* it rejects some.
InitializeIndexWith(recreate, fault, accepted) ==
        LET c         == CreateIndexWithNori(indices, recreate, fault = "create")
            counted   == c.ok /\ ~recreate
            count     == IF counted THEN GetDocumentCount(c.indices, fault = "count") ELSE 0
            cq        == IF counted THEN <<Request("count", esIndexName)>> ELSE <<>>
            documents == IF fault = "extract" THEN <<>> ELSE PdfDocuments
            outcome   == IF fault \in {"raise", "partial"} THEN fault ELSE "ok"
            b         == BulkIndexDocuments(c.indices, documents, outcome, accepted)
            miscount  == IF counted /\ fault = "count" THEN "count" ELSE "none"
            done(i, ok, rs, failed) ==
                /\ indices' = i
                /\ call' = [NoCall EXCEPT !.op = "initialize_index",
                                          !.recreate = recreate, !.ok = ok, !.issued = rs,
                                          !.failed = failed,
                                          !.raised = Propagates(failed)]
        IN  /\ Len(c.indices[esIndexName].docs) + Len(documents) <= MaxDocs
            /\ IF ~c.ok
               THEN done(c.indices, FALSE, c.issued,
                         IF client /\ fault = "create" THEN "create" ELSE "none")
               ELSE IF counted /\ count > 0 THEN done(c.indices, TRUE, c.issued \o cq, "none")
               ELSE IF documents = <<>> THEN done(c.indices, FALSE, c.issued \o cq, miscount)
               ELSE done(b.indices, b.ok, c.issued \o cq \o b.issued,
                         IF outcome = "raise" THEN "bulk"
                         ELSE IF outcome = "partial" THEN "rejected" ELSE miscount)

\* SearchService.initialize_index, called on the service itself.
InitializeIndex ==
    /\ \E recreate \in BOOLEAN, fault \in Faults,
          accepted \in (SUBSET (1..Len(PdfDocuments))) \ {1..Len(PdfDocuments)} :
        InitializeIndexWith(recreate, fault, accepted)
    /\ UNCHANGED <<client, esIndexName, appVars, textVars, chunkVars, explVars, pdfVars, mainVars>>

\* SearchService.reset_index
ResetIndex ==
    /\ \E fails \in BOOLEAN :
        LET name == ServiceIndexName
            ex   == Request("exists", name)
            done(i, ok, rs, failed) ==
                /\ indices' = i
                /\ call' = [NoCall EXCEPT !.op = "reset_index", !.ok = ok, !.issued = rs,
                                          !.failed = failed,
                                          !.raised = Propagates(failed)]
        IN  IF ~client THEN done(indices, FALSE, <<>>, "none")
            ELSE IF fails THEN done(indices, FALSE, <<ex>>, "reset")
            ELSE IF indices[name].exists
            THEN done([indices EXCEPT ![name] = NoIndex], TRUE,
                      <<ex, Request("delete", name)>>, "none")
            ELSE done(indices, TRUE, <<ex>>, "none")
    /\ UNCHANGED <<client, esIndexName, appVars, textVars, chunkVars, explVars, pdfVars, mainVars>>

\* A call of ElasticsearchClient.create_index
ClientCreateIndex ==
    /\ \E delete_existing \in BOOLEAN, fails \in BOOLEAN :
        LET c == CreateIndex(indices, delete_existing, fails)
            failed == IF client /\ fails THEN "create" ELSE "none"
        IN  /\ indices' = c.indices
            /\ call' = [NoCall EXCEPT !.op = "create_index", !.recreate = delete_existing,
                                      !.ok = c.ok, !.issued = c.issued,
                                      !.failed = failed, !.raised = Propagates(failed)]
    /\ UNCHANGED <<client, esIndexName, appVars, textVars, chunkVars, explVars, pdfVars, mainVars>>

\* A call of ElasticsearchClient.delete_index
ClientDeleteIndex ==
    /\ \E fails \in BOOLEAN :
        LET d == DeleteIndex(indices, fails)
            failed == IF client /\ fails THEN "delete" ELSE "none"
        IN  /\ indices' = d.indices
            /\ call' = [NoCall EXCEPT !.op = "delete_index", !.ok = d.ok,
                                      !.issued = d.issued,
                                      !.failed = failed, !.raised = Propagates(failed)]
    /\ UNCHANGED <<client, esIndexName, appVars, textVars, chunkVars, explVars, pdfVars, mainVars>>

\* The query texts given to search.
Queries == {<<>>, <<" ">>, <<".">>, <<" ", ".">>, <<"seu", "to", "king">>, <<"gang", "gan">>}

\* The analyzer makes at least one token of the query.
HasToken(query) == \E i \in 1..Len(query) : IsWord(query[i])

\* The highlight entry of a hit: the fields the index service returned
\* fragments for; a hit without fragments has no entry.
HitHighlights == {{}, {"content"}, {"title", "content"}}

\* SearchResult(document, score, highlights) of one hit, as the result loop
\* of search_with_advanced_analysis builds it: highlights is
\* hit.get('highlight', {}).  The score, copied from the hit, is left out.
ResultOfHit(doc, hl) ==
    [document |-> Document(doc.title, doc.content, doc.page_number,
                           doc.category, doc.file_path),
     highlights |-> hl]

\* The sets of positions of the documents of an index the index service may
\* answer a text search with: documents of the filter's category when there
\* is a filter, none when the query has no token, at most size of them.
TextHits(docs, query, size, category) ==
    {S \in SUBSET {i \in 1..Len(docs) :
                      category = NoCategory \/ docs[i].category = category} :
        /\ Cardinality(S) <= size
        /\ (~HasToken(query) => S = {})}

\* The four scoring clauses of the text search; boosts are written in
\* tenths (30 is the boost 3.0).
ScoringClauses(query) ==
    << [clause |-> "match_phrase", field |-> "content", query |-> query,
        boost |-> 30, option |-> "none"],
       [clause |-> "match", field |-> "title", query |-> query,
        boost |-> 25, option |-> "operator and"],
       [clause |-> "match", field |-> "content", query |-> query,
        boost |-> 10, option |-> "none"],
       [clause |-> "fuzzy", field |-> "content", query |-> query,
        boost |-> 5, option |-> "fuzziness AUTO"] >>

\* The highlight part of the request.
HighlightConfig ==
    [title   |-> [pre_tags |-> "<mark>", post_tags |-> "</mark>",
                  fragment_size |-> 100, number_of_fragments |-> 1],
     content |-> [pre_tags |-> "<mark>", post_tags |-> "</mark>",
                  fragment_size |-> 150, number_of_fragments |-> 3]]

\* A plausible other request: the filter is assigned to the whole bool
\* query, which loses the scoring clauses.
SearchQueryFilterReplacesBool(query, size, category) ==
    [should |-> IF category # NoCategory THEN <<>> ELSE ScoringClauses(query),
     minimum_should_match |-> IF category # NoCategory THEN 0 ELSE 1,
     filter |-> IF category # NoCategory
                THEN <<[term |-> "category", value |-> category]>> ELSE <<>>,
     highlight |-> HighlightConfig,
     size |-> size]

\* search_query of search_with_advanced_analysis; filter is empty when the
\* bool query has no filter entry.
SearchQuery(query, size, category) ==
    [should |-> ScoringClauses(query),
     minimum_should_match |-> 1,
     filter |-> IF category # NoCategory
                THEN <<[term |-> "category", value |-> category]>> ELSE <<>>,
     highlight |-> HighlightConfig,
     size |-> size]

\* SearchService.search = search_with_advanced_analysis(query, size, category);
\* fails: the search request raises.
SearchWith(query, size, category, fails) ==
        LET name   == ServiceIndexName
            rq     == SearchRequests(name, fails \/ ~indices[name].exists)
            failed == IF client /\ (fails \/ ~indices[name].exists) THEN "search" ELSE "none"
            done(ret, rs) ==
                call' = [NoCall EXCEPT !.op = "search", !.query = query, !.size = size,
                                       !.category = category, !.ret = ret,
                                       !.ok = TRUE, !.issued = rs,
                                       !.request = SearchQuery(query, size, category),
                                       !.failed = failed,
                                       !.raised = Propagates(failed)]
        IN  IF ~client THEN done(<<>>, <<>>)
            ELSE IF fails \/ ~indices[name].exists THEN done(<<>>, rq)
            ELSE \E S \in TextHits(indices[name].docs, query, size, category) :
                 \E hl \in [S -> HitHighlights] :
                    done(Pick([i \in 1..Len(indices[name].docs) |->
                                  IF i \in S
                                  THEN ResultOfHit(indices[name].docs[i], hl[i])
                                  ELSE <<>>], S, 1),
                         rq)

\* SearchService.search, called on the service itself.
Search ==
    /\ \E query \in Queries, size \in 1..2, category \in {NoCategory, Stalking, Other},
          fails \in BOOLEAN :
        SearchWith(query, size, category, fails)
    /\ UNCHANGED <<client, esIndexName, indices, appVars, textVars, chunkVars, explVars, pdfVars, mainVars>>

\* A term query that the index service answers with documents of any
\* category.
CategoryHitsUnfiltered(docs, category, size) ==
    {S \in SUBSET (1..Len(docs)) :
        Cardinality(S) = IF Len(docs) < size THEN Len(docs) ELSE size}

\* The hits of the term query of search_by_category: the documents of the
\* category, all of them when they are at most size, else size of them.
CategoryHits(docs, category, size) ==
    LET matching == {i \in 1..Len(docs) : docs[i].category = category}
    IN  {S \in SUBSET matching :
            Cardinality(S) = IF Cardinality(matching) < size
                             THEN Cardinality(matching) ELSE size}

\* SearchService.search_by_category(category, size); fails: the search
\* request raises.  A result carries no highlights.
SearchByCategoryWith(category, size, fails) ==
        LET name   == ServiceIndexName
            rq     == SearchRequests(name, fails \/ ~indices[name].exists)
            failed == IF client /\ (fails \/ ~indices[name].exists) THEN "search" ELSE "none"
            done(ret, rs) ==
                call' = [NoCall EXCEPT !.op = "search_by_category", !.size = size,
                                       !.category = category, !.ret = ret,
                                       !.ok = TRUE, !.issued = rs,
                                       !.request = [term |-> "category", value |-> category,
                                                    size |-> size],
                                       !.failed = failed,
                                       !.raised = Propagates(failed)]
        IN  IF ~client THEN done(<<>>, <<>>)
            ELSE IF fails \/ ~indices[name].exists THEN done(<<>>, rq)
            ELSE \E S \in CategoryHits(indices[name].docs, category, size) :
                    done(Pick([i \in 1..Len(indices[name].docs) |->
                                  IF i \in S
                                  THEN ResultOfHit(indices[name].docs[i], {})
                                  ELSE <<>>], S, 1),
                         rq)

\* SearchService.search_by_category, called on the service itself.
SearchByCategory ==
    /\ \E category \in {Stalking, Gambling, Other}, size \in 1..2, fails \in BOOLEAN :
        SearchByCategoryWith(category, size, fails)
    /\ UNCHANGED <<client, esIndexName, indices, appVars, textVars, chunkVars, explVars, pdfVars, mainVars>>

-----------------------------------------------------------------------------
(* LegalDocumentSearchApp: initialize, search_documents and               *)
(* search_by_category, each with the call of the service it makes.        *)

\* size: int = 5
DefaultSize == 5

AppCall(op, initialized, ok, ret, raised, logged, printed, issued) ==
    [op |-> op, initialized |-> initialized, ok |-> ok, ret |-> ret, raised |-> raised,
     logged |-> logged, printed |-> printed, issued |-> issued]

\* The requests of get_statistics: the count and the category aggregation
\* on the service's index, the health of the cluster, and the existence
\* and the count of the client's index.  None changes an index.
StatisticsRequests(idx) ==
    IF ~client THEN <<>>
    ELSE <<Request("count", ServiceIndexName), Request("health", "cluster"),
           Request("exists", esIndexName)>>
            \o (IF idx[esIndexName].exists THEN <<Request("count", esIndexName)>> ELSE <<>>)
            \o <<Request("search", ServiceIndexName)>>

\* What search_documents and search_by_category do with the results of the
\* service.  _print_search_results reads result.explanation, a field that
\* SearchResult does not have: the AttributeError of the first result goes
\* to the except clause, which logs it and returns [].
AfterSearch(op, svc) ==
    IF svc.ret # <<>>
    THEN AppCall(op, TRUE, FALSE, <<>>, FALSE, "search error", "first result", svc.issued)
    ELSE AppCall(op, TRUE, TRUE, svc.ret, FALSE, "none", "no results", svc.issued)

\* The return of search_documents and search_by_category before initialize
\* has succeeded: an error is logged and [] returned.
NotInitialized(op) ==
    AppCall(op, FALSE, FALSE, <<>>, FALSE, "not initialized", "none", <<>>)

\* LegalDocumentSearchApp.initialize(recreate_index); exists: the PDF file
\* is there.
AppInitializeWith(exists, recreate, fault, accepted) ==
        IF ~exists
        THEN /\ appCall' = AppCall("initialize", is_initialized, FALSE, <<>>, FALSE,
                                   "no pdf", "none", <<>>)
             /\ UNCHANGED <<is_initialized, indices, call>>
        ELSE /\ InitializeIndexWith(recreate, fault, accepted)
             /\ is_initialized' = (is_initialized \/ call'.ok)
             /\ appCall' = IF call'.ok
                           THEN AppCall("initialize", is_initialized, TRUE, <<>>, FALSE, "none",
                                        "statistics",
                                        call'.issued \o StatisticsRequests(indices'))
                           ELSE AppCall("initialize", is_initialized, FALSE, <<>>, FALSE,
                                        "initialize failed", "none", call'.issued)

\* A call of initialize on the application itself.
AppInitialize ==
    /\ \E exists \in BOOLEAN, recreate \in BOOLEAN, fault \in Faults,
          accepted \in (SUBSET (1..Len(PdfDocuments))) \ {1..Len(PdfDocuments)} :
        AppInitializeWith(exists, recreate, fault, accepted)
    /\ UNCHANGED <<client, esIndexName, textVars, chunkVars, explVars, pdfVars, mainVars>>

\* LegalDocumentSearchApp.search_documents(query), size and category left
\* to their defaults.
AppSearchDocuments ==
    /\ \E query \in Queries, fails \in BOOLEAN :
        IF ~is_initialized
        THEN /\ appCall' = NotInitialized("search_documents")
             /\ call' = call
        ELSE /\ SearchWith(query, DefaultSize, NoCategory, fails)
             /\ appCall' = AfterSearch("search_documents", call')
    /\ UNCHANGED <<is_initialized, client, esIndexName, indices,
                   textVars, chunkVars, explVars, pdfVars, mainVars>>

\* LegalDocumentSearchApp.search_by_category(category), size left to its
\* default.
AppSearchByCategory ==
    /\ \E category \in {Stalking, Gambling, Other}, fails \in BOOLEAN :
        IF ~is_initialized
        THEN /\ appCall' = NotInitialized("search_by_category")
             /\ call' = call
        ELSE /\ SearchByCategoryWith(category, DefaultSize, fails)
             /\ appCall' = AfterSearch("search_by_category", call')
    /\ UNCHANGED <<is_initialized, client, esIndexName, indices,
                   textVars, chunkVars, explVars, pdfVars, mainVars>>

Init ==
    /\ client \in BOOLEAN
    /\ esIndexName \in IndexNames
    /\ indices = [n \in IndexNames |-> NoIndex]
    /\ call = NoCall
    /\ is_initialized = FALSE
    /\ appCall = NoAppCall
    /\ TextIdle
    /\ ChunkIdle
    /\ ExplIdle
    /\ PdfIdle
    /\ MainIdle

Next ==
    \/ InitializeIndex
    \/ ResetIndex
    \/ ClientCreateIndex
    \/ ClientDeleteIndex
    \/ Search
    \/ SearchByCategory

Spec == Init /\ [][Next]_vars

\* initialize_index(pdf_path, recreate=True), as test_reindex calls it.
InitializeIndexRecreate ==
    /\ \E fault \in Faults,
          accepted \in (SUBSET (1..Len(PdfDocuments))) \ {1..Len(PdfDocuments)} :
        InitializeIndexWith(TRUE, fault, accepted)
    /\ UNCHANGED <<client, esIndexName, appVars, textVars, chunkVars, explVars, pdfVars, mainVars>>

\* Re-indexing: runs of reset_index and of initialize_index(recreate=True).
ReindexNext == ResetIndex \/ InitializeIndexRecreate

SpecReindex == Init /\ [][ReindexNext]_vars

\* Ingestion: runs of initialize_index, with recreate false or true.
SpecIngest == Init /\ [][InitializeIndex]_vars

\* The application: the service is called by its methods only.
AppNext == AppInitialize \/ AppSearchDocuments \/ AppSearchByCategory

SpecApp == Init /\ [][AppNext]_vars

-----------------------------------------------------------------------------
(* main and LegalDocumentSearchApp.interactive_search.  A line is a        *)
(* sequence of tokens: a command word, a blank, a category name, or the    *)
(* syllables of a query; a category name is one token.                     *)

\* str.lower on the tokens of a line.
LowerToken(c) ==
    CASE c = "Exit" -> "exit"
      [] c = "H" -> "h"
      [] c = "Category:" -> "category:"
      [] OTHER -> c

LowerLine(line) == [i \in 1..Len(line) |-> LowerToken(line[i])]

\* What one line, or the arguments, made the program do.
Act(action, arg) == [action |-> action, arg |-> arg]

\* user_input[9:].strip() of a line that starts with category:
CategoryOf(line) == Strip(SubSeq(line, 2, Len(line)))

\* A loop that takes category: without a name for a query.
DispatchWithoutHint(line) ==
    IF line = <<>> THEN "continue"
    ELSE IF LowerLine(line) \in {<<"quit">>, <<"exit">>, <<"q">>} THEN "quit"
    ELSE IF LowerLine(line) \in {<<"help">>, <<"h">>} THEN "help"
    ELSE IF LowerLine(line) \in {<<"stats">>, <<"stat">>} THEN "stats"
    ELSE IF line[1] = "category:" /\ CategoryOf(line) # <<>> THEN "search_by_category"
    ELSE "search_documents"

\* The if / elif chain of interactive_search on the stripped line.
Dispatch(line) ==
    IF line = <<>> THEN "continue"
    ELSE IF LowerLine(line) \in {<<"quit">>, <<"exit">>, <<"q">>} THEN "quit"
    ELSE IF LowerLine(line) \in {<<"help">>, <<"h">>} THEN "help"
    ELSE IF LowerLine(line) \in {<<"stats">>, <<"stat">>} THEN "stats"
    ELSE IF line[1] = "category:"
    THEN IF CategoryOf(line) # <<>> THEN "search_by_category" ELSE "hint"
    ELSE "search_documents"

\* " ".join(sys.argv[1:])
RECURSIVE JoinArgs(_)
JoinArgs(args) ==
    IF Len(args) = 0 THEN <<>>
    ELSE IF Len(args) = 1 THEN args[1]
    ELSE args[1] \o <<" ">> \o JoinArgs(Tail(args))

\* The lines typed at the prompt.
Lines == {<<>>, <<" ">>, <<"quit">>, <<"Exit">>, <<" ", "q">>, <<"help">>, <<"H", " ">>,
          <<"stats">>, <<"stat">>, <<"category:", Stalking>>,
          <<"category:", " ", Gambling, " ">>, <<"category:">>, <<"category:", " ">>,
          <<"Category:", Stalking>>, <<"seu", "to", "king">>, <<"quit", " ", "gang">>,
          <<"q", "q">>}

\* The arguments the program is started with.
Argvs == {<<>>, <<<<"seu", "to", "king">>>>, <<<<"gang">>, <<"gan">>>>, <<<<>>>>}

MainInit ==
    /\ client \in BOOLEAN
    /\ esIndexName \in IndexNames
    /\ indices = [n \in IndexNames |-> NoIndex]
    /\ call = NoCall
    /\ is_initialized = FALSE
    /\ appCall = NoAppCall
    /\ argv \in Argvs
    /\ mainPc = "start"
    /\ user_input = <<>>
    /\ acts = <<>>
    /\ TextIdle
    /\ ChunkIdle
    /\ ExplIdle
    /\ PdfIdle

\* main up to the test of the arguments: app.initialize(), after which the
\* program ends, searches for its arguments or enters the loop.
MainInitialize ==
    /\ mainPc = "start"
    /\ \E exists \in BOOLEAN, fault \in Faults,
          accepted \in (SUBSET (1..Len(PdfDocuments))) \ {1..Len(PdfDocuments)} :
        AppInitializeWith(exists, FALSE, fault, accepted)
    /\ mainPc' = IF ~appCall'.ok THEN "done"
                 ELSE IF Len(argv) > 0 THEN "arguments" ELSE "loop"
    /\ UNCHANGED <<client, esIndexName, argv, user_input, acts,
                   textVars, chunkVars, explVars, pdfVars>>

\* main with arguments: app.search_documents(query), then the end.
MainSearchArguments ==
    /\ mainPc = "arguments"
    /\ \E fails \in BOOLEAN :
        /\ SearchWith(JoinArgs(argv), DefaultSize, NoCategory, fails)
        /\ appCall' = AfterSearch("search_documents", call')
    /\ acts' = <<Act("search_documents", JoinArgs(argv))>>
    /\ mainPc' = "done"
    /\ UNCHANGED <<client, esIndexName, indices, is_initialized, argv, user_input,
                   textVars, chunkVars, explVars, pdfVars>>

\* interactive_search: a blank line
InteractiveContinue ==
    /\ mainPc = "loop"
    /\ \E line \in Lines :
        /\ Dispatch(Strip(line)) = "continue"
        /\ user_input' = Strip(line)
    /\ acts' = <<>>
    /\ UNCHANGED <<svcVars, appVars, argv, mainPc, textVars, chunkVars, explVars, pdfVars>>

\* interactive_search: quit, exit, q
InteractiveQuit ==
    /\ mainPc = "loop"
    /\ \E line \in Lines :
        /\ Dispatch(Strip(line)) = "quit"
        /\ user_input' = Strip(line)
    /\ acts' = <<Act("quit", <<>>)>>
    /\ mainPc' = "done"
    /\ UNCHANGED <<svcVars, appVars, argv, textVars, chunkVars, explVars, pdfVars>>

\* interactive_search: help, h
InteractiveHelp ==
    /\ mainPc = "loop"
    /\ \E line \in Lines :
        /\ Dispatch(Strip(line)) = "help"
        /\ user_input' = Strip(line)
    /\ acts' = <<Act("_print_help", <<>>)>>
    /\ UNCHANGED <<svcVars, appVars, argv, mainPc, textVars, chunkVars, explVars, pdfVars>>

\* interactive_search: stats, stat
InteractiveStats ==
    /\ mainPc = "loop"
    /\ \E line \in Lines :
        /\ Dispatch(Strip(line)) = "stats"
        /\ user_input' = Strip(line)
    /\ acts' = <<Act("_print_statistics", <<>>)>>
    /\ appCall' = AppCall("get_statistics", is_initialized, TRUE, <<>>, FALSE, "none",
                          "statistics", StatisticsRequests(indices))
    /\ UNCHANGED <<svcVars, is_initialized, argv, mainPc,
                   textVars, chunkVars, explVars, pdfVars>>

\* interactive_search: category:<name>
InteractiveCategory ==
    /\ mainPc = "loop"
    /\ \E line \in Lines, fails \in BOOLEAN :
        /\ Dispatch(Strip(line)) = "search_by_category"
        /\ user_input' = Strip(line)
        /\ SearchByCategoryWith(CategoryOf(Strip(line))[1], DefaultSize, fails)
        /\ appCall' = AfterSearch("search_by_category", call')
        /\ acts' = <<Act("search_by_category", CategoryOf(Strip(line)))>>
    /\ UNCHANGED <<client, esIndexName, indices, is_initialized, argv, mainPc,
                   textVars, chunkVars, explVars, pdfVars>>

\* interactive_search: category: without a name
InteractiveHint ==
    /\ mainPc = "loop"
    /\ \E line \in Lines :
        /\ Dispatch(Strip(line)) = "hint"
        /\ user_input' = Strip(line)
    /\ acts' = <<Act("hint", <<>>)>>
    /\ UNCHANGED <<svcVars, appVars, argv, mainPc, textVars, chunkVars, explVars, pdfVars>>

\* interactive_search: any other line
InteractiveSearch ==
    /\ mainPc = "loop"
    /\ \E line \in Lines, fails \in BOOLEAN :
        /\ Dispatch(Strip(line)) = "search_documents"
        /\ user_input' = Strip(line)
        /\ SearchWith(Strip(line), DefaultSize, NoCategory, fails)
        /\ appCall' = AfterSearch("search_documents", call')
        /\ acts' = <<Act("search_documents", Strip(line))>>
    /\ UNCHANGED <<client, esIndexName, indices, is_initialized, argv, mainPc,
                   textVars, chunkVars, explVars, pdfVars>>

\* interactive_search: KeyboardInterrupt or EOFError at the prompt
InteractiveInterrupt ==
    /\ mainPc = "loop"
    /\ user_input' = <<>>
    /\ acts' = <<Act("interrupt", <<>>)>>
    /\ mainPc' = "done"
    /\ UNCHANGED <<svcVars, appVars, argv, textVars, chunkVars, explVars, pdfVars>>

MainNext ==
    \/ MainInitialize
    \/ MainSearchArguments
    \/ InteractiveContinue
    \/ InteractiveQuit
    \/ InteractiveHelp
    \/ InteractiveStats
    \/ InteractiveCategory
    \/ InteractiveHint
    \/ InteractiveSearch
    \/ InteractiveInterrupt

SpecMain == MainInit /\ [][MainNext]_vars

\* C1: a search whose query is empty, or empty once cleaned, returns the
\* empty list and issues no request to the index service.
EmptyQueryIssuesNoRequest ==
    (call.op = "search" /\ clean_text(call.query) = <<>>)
        => (call.ret = <<>> /\ call.issued = <<>>)

\* C2: every result of a text search carries at least one highlight string.
EveryResultHasHighlight ==
    call.op = "search"
        => \A i \in 1..Len(call.ret) : call.ret[i].highlights # {}

\* The boosts of the scoring clauses of a request, in tenths, in order.
BoostsOf(request) == [i \in 1..Len(request.should) |-> request.should[i].boost]

\* C11: the request built with a category filter holds the exact-match
\* filter on category, and its scoring clauses (four, with boosts 3.0, 2.5,
\* 1.0, 0.5, at least one to match), highlight configuration and size are
\* those of the request built for the same query and size without a filter.
FilterLeavesScoringAlone ==
    (call.op = "search" /\ call.category # NoCategory)
        => LET plain == SearchQuery(call.query, call.size, NoCategory)
           IN  /\ call.request.filter = <<[term |-> "category", value |-> call.category]>>
               /\ plain.filter = <<>>
               /\ BoostsOf(call.request) = <<30, 25, 10, 5>>
               /\ call.request.minimum_should_match = 1
               /\ call.request.should = plain.should
               /\ call.request.minimum_should_match = plain.minimum_should_match
               /\ call.request.highlight = plain.highlight
               /\ call.request.size = call.size
               /\ call.request.size = plain.size

\* C11 witness: a filtered search was sent and answered with a hit.
FilteredSearchWitness ==
    /\ call.op = "search"
    /\ call.category = Stalking
    /\ call.issued # <<>>
    /\ call.ret # <<>>
    /\ call.request.filter # <<>>

-----------------------------------------------------------------------------
(* LegalDocumentSearchApp._translate_explanation_description              *)
(*                                                                        *)
(* A description is a sequence of pieces, joined by ", ", and a flag for   *)
(* a trailing colon: "weight(content:seutoking in 0), result of:" is the  *)
(* pieces "weight(content:seutoking in 0)", "result of" and the colon.    *)
(* The code only looks for fixed substrings, and no substring it looks    *)
(* for lies across two pieces; PieceHas tells which ones a piece holds.   *)

MaxPieces == 2       \* most pieces in a description given to the translation

WeightTitle   == "weight(title:seutoking in 0)"
WeightContent == "weight(content:seutoking in 0)"
WeightOther   == "weight(law_name:seutoking in 0)"
ScoreFreq     == "score(freq=1.0)"

\* simple_translations, in the order the dict is walked: the English term
\* and its label.
simple_translations ==
    << <<"sum of", "field score total">>,
       <<"max of", "best score selection">>,
       <<"min of", "minimum">>,
       <<"product of", "product">>,
       <<"fieldWeight", "field weight">>,
       <<"tf", "term frequency">>,
       <<"idf", "inverse document frequency">>,
       <<"norm", "normalisation">>,
       <<"boost", "boost">>,
       <<"match", "matching">> >>

\* The pieces descriptions are made of.
Pieces ==
    {WeightTitle, WeightContent, WeightOther, ScoreFreq,
     "Sum of", "[PerFieldSimilarity]", "computed as", "result of",
     "title", "content", "n, number of documents"}
        \cup {simple_translations[i][1] : i \in 1..Len(simple_translations)}

\* The substrings, among those the code looks for, that piece p holds as
\* written.
PieceHas(p) ==
    CASE p = WeightTitle   -> {"weight()", "title:", "title"}
      [] p = WeightContent -> {"weight()", "content:", "content"}
      [] p = WeightOther   -> {"weight()"}
      [] p = ScoreFreq     -> {"score(", "freq=", "freq=<number>"}
      [] p \in {"Sum of", "[PerFieldSimilarity]", "computed as", "result of",
                "n, number of documents"} -> {}
      [] OTHER -> {p}

\* The substrings that the lower-cased piece p holds.
PieceHasLower(p) ==
    CASE p = "Sum of" -> {"sum of"}
      [] p = "[PerFieldSimilarity]" -> {"perfieldsimilarity"}
      [] p \in {"computed as", "result of"} -> {p}
      [] OTHER -> PieceHas(p)

Desc(pieces, colon) == [pieces |-> pieces, colon |-> colon]

\* The description '' (also the default of a missing description).
EmptyDesc == Desc(<<>>, FALSE)

\* description.rstrip(':')
RStripColon(d) == Desc(d.pieces, FALSE)

\* sub in d
DescHas(d, sub) == \E i \in 1..Len(d.pieces) : sub \in PieceHas(d.pieces[i])

\* sub in d.lower(); "title:" and "content:" also end a description whose
\* last piece is the field name, followed by the colon.
DescHasLower(d, sub) ==
    \/ \E i \in 1..Len(d.pieces) : sub \in PieceHasLower(d.pieces[i])
    \/ /\ d.colon
       /\ d.pieces # <<>>
       /\ sub = d.pieces[Len(d.pieces)] \o ":"

Label(label, arg) == [label |-> label, arg |-> arg]

NoLabel == Label("", "")

\* The label of the last return: "score calculation".
Fallback == Label("score calculation", "")

\* re.search(weight_pattern, ...): the first weight(...) of the description.
FirstWeight(d) ==
    d.pieces[CHOOSE i \in 1..Len(d.pieces) :
                /\ "weight()" \in PieceHas(d.pieces[i])
                /\ \A j \in 1..(i - 1) : "weight()" \notin PieceHas(d.pieces[j])]

\* The loop over simple_translations: the label of the first entry, in the
\* order of the table, whose term the description holds; none: the
\* description is left as it is.
SimpleTranslation(d) ==
    LET hits == {i \in 1..Len(simple_translations) : DescHas(d, simple_translations[i][1])}
    IN  IF hits = {} THEN NoLabel
        ELSE Label(simple_translations[FirstOf(hits)][2], "")

\* any(tech in cleaned_desc.lower() for tech in [...])
IsTechnical(d) ==
    \E tech \in {"perfieldsimilarity", "result of", "computed as"} : DescHasLower(d, tech)

TechnicalLabel(d) ==
    IF DescHas(d, "title") THEN Label("title match score", "")
    ELSE IF DescHas(d, "content") THEN Label("content match score", "")
    ELSE Label("match score", "")

\* The label of a weight(...) that names the title or the content field.
WeightLabel(w) ==
    IF "title:" \in PieceHas(w) THEN Label("title field weight", "seutoking")
    ELSE Label("content field weight", "seutoking")

NamesField(w) == "title:" \in PieceHas(w) \/ "content:" \in PieceHas(w)

_translate_explanation_description(description) ==
    LET cleaned_desc == RStripColon(description)
        translated   == SimpleTranslation(cleaned_desc)
    IN  IF description = EmptyDesc THEN NoLabel
        ELSE IF DescHas(cleaned_desc, "weight()") /\ NamesField(FirstWeight(cleaned_desc))
        THEN WeightLabel(FirstWeight(cleaned_desc))
        ELSE IF /\ DescHas(cleaned_desc, "score(")
                /\ DescHas(cleaned_desc, "freq=")
                /\ DescHas(cleaned_desc, "freq=<number>")
        THEN Label("score calculation (frequency)", "1.0")
        ELSE IF IsTechnical(cleaned_desc) THEN TechnicalLabel(cleaned_desc)
        ELSE IF translated # NoLabel THEN translated
        ELSE Fallback

-----------------------------------------------------------------------------
(* SpecTranslate: the translation applied to descriptions.                *)

Descriptions == {Desc(ps, c) : ps \in Texts(Pieces, MaxPieces), c \in BOOLEAN}

TranslateInit ==
    /\ pc = "ready"
    /\ text \in Descriptions
    /\ params = NoParams
    /\ result = NoLabel
    /\ result2 = <<>>
    /\ ChunkIdle
    /\ SvcIdle
    /\ ExplIdle
    /\ PdfIdle
    /\ MainIdle

\* result = _translate_explanation_description(text)
Translate ==
    /\ pc = "ready"
    /\ result' = _translate_explanation_description(text)
    /\ pc' = "translated"
    /\ UNCHANGED <<text, params, result2, chunkVars, svcVars, appVars, explVars, pdfVars, mainVars>>

TranslateNext == Translate

SpecTranslate == TranslateInit /\ [][TranslateNext]_vars

\* Rule k of the translation matches the description of the call.
RuleMatches(k) ==
    LET d == RStripColon(text)
    IN  CASE k = 1 -> \E i \in 1..Len(d.pieces) :
                         /\ "weight()" \in PieceHas(d.pieces[i])
                         /\ \A j \in 1..(i - 1) : "weight()" \notin PieceHas(d.pieces[j])
                         /\ NamesField(d.pieces[i])
          [] k = 2 -> DescHas(d, "score(") /\ DescHas(d, "freq=<number>")
          [] k = 3 -> \E i \in 1..Len(simple_translations) :
                         DescHas(d, simple_translations[i][1])
          [] k = 4 -> \E tech \in {"perfieldsimilarity", "result of", "computed as"} :
                         DescHasLower(d, tech)
          [] OTHER -> TRUE

\* The first rule, in the order 1 to 5, that matches.
FirstRule == CHOOSE k \in 1..5 : RuleMatches(k) /\ \A j \in 1..(k - 1) : ~RuleMatches(j)

\* The names of the labels each rule gives.
RuleLabels(k) ==
    CASE k = 1 -> {"title field weight", "content field weight"}
      [] k = 2 -> {"score calculation (frequency)"}
      [] k = 3 -> {simple_translations[i][2] : i \in 1..Len(simple_translations)}
      [] k = 4 -> {"title match score", "content match score", "match score"}
      [] OTHER -> {"score calculation"}

\* C13: the rules are tried in the order 1 weighted field, 2 frequency,
\* 3 vocabulary table, 4 technical similarity, 5 fallback, and the label is
\* that of the first rule that matches; a vocabulary entry wins over the
\* technical-similarity pattern.
TranslateFirstRuleWins ==
    (pc = "translated" /\ text # EmptyDesc) => result.label \in RuleLabels(FirstRule)

-----------------------------------------------------------------------------
(* LegalDocumentSearchApp._print_explanation and                          *)
(* _print_explanation_recursive: the explanation decoder.                 *)
(*                                                                        *)
(* A node of an explanation is a record: hasValue and value (in halves:   *)
(* value 3 is the score 1.5), description, and details, which is absent   *)
(* ("none"), a list of nodes or a single node ("dict").  The recursion is *)
(* unfolded on stack: one step makes the call on top of it.               *)

MaxDepth    == 5     \* most nodes on a path of an explanation
MaxChildren == 5     \* most children of a node

\* indent > 4
DepthLimit == 4

\* sorted(...)[:4]
TopDetails == 4

Node(hasValue, value, description, detailsKind, details) ==
    [hasValue |-> hasValue, value |-> value, description |-> description,
     detailsKind |-> detailsKind, details |-> details]

\* 'details' in explanation and explanation['details']
HasDetails(node) == node.detailsKind # "none" /\ node.details # <<>>

\* key=lambda x: x.get('value', 0)
SortKey(node) == IF node.hasValue THEN node.value ELSE 0

\* The place of details[i] once sorted by descending key; sorted() is
\* stable, so equal keys keep the order of the list.
RankOf(details, i) ==
    1 + Cardinality({j \in 1..Len(details) :
                        \/ SortKey(details[j]) > SortKey(details[i])
                        \/ SortKey(details[j]) = SortKey(details[i]) /\ j < i})

\* sorted(details, key=..., reverse=True)
SortedByValue(details) ==
    [r \in 1..Len(details) |->
        details[CHOOSE i \in 1..Len(details) : RankOf(details, i) = r]]

\* sorted(details, ...)[:5]
SortedDetailsTopFive(details) ==
    SubSeq(SortedByValue(details), 1,
           IF Len(details) < TopDetails + 1 THEN Len(details) ELSE TopDetails + 1)

\* sorted_details
SortedDetails(details) ==
    SubSeq(SortedByValue(details), 1,
           IF Len(details) < TopDetails THEN Len(details) ELSE TopDetails)

\* f"{value:.4f}" of a number: the whole part and the four decimals.
Format4(value) == [text |-> "number", whole |-> value \div 2, decimals |-> (value % 2) * 5000]

NoNumber == [text |-> "", whole |-> 0, decimals |-> 0]

Line(kind, indent, label, value) ==
    [kind |-> kind, indent |-> indent, label |-> label, value |-> value]

TitleLine  == Line("title", 0, NoLabel, NoNumber)
NoInfoLine == Line("no explanation", 1, NoLabel, NoNumber)
ErrorLine  == Line("error", 1, NoLabel, NoNumber)
BlankLine  == Line("blank", 0, NoLabel, NoNumber)

\* details[0] of _determine_field_name raises KeyError: details is a dict.
FieldNameRaises(detail) == HasDetails(detail) /\ detail.detailsKind = "dict"

\* _determine_field_name, when it does not raise
_determine_field_name(detail) ==
    IF ~HasDetails(detail) THEN Label("unknown field", "")
    ELSE IF DescHasLower(detail.details[1].description, "title:")
         THEN Label("title field", "")
    ELSE IF DescHasLower(detail.details[1].description, "content:")
         THEN Label("content field", "")
    ELSE Label("unknown field", "")

Frame(kind, node, indent) == [kind |-> kind, node |-> node, indent |-> indent]

\* indent > 5
TooDeepBeyond(indent) == indent > DepthLimit + 1

\* indent > 4
TooDeep(indent) == indent > DepthLimit

\* The line of a node is printed: always at the top level, below it only
\* with a label that is neither empty nor the fallback.
Printed(node, indent) ==
    LET korean_desc == _translate_explanation_description(node.description)
    IN  indent = 1 \/ (korean_desc # NoLabel /\ korean_desc # Fallback)

NodeLine(node, indent) ==
    Line(IF indent = 1 THEN "top" ELSE "sub", indent,
         _translate_explanation_description(node.description), Format4(node.value))

\* The calls and prints the loop over sorted_details of a "max of" node
\* makes for one detail.
MaxOfDetail(detail, indent) ==
    IF DescHasLower(detail.description, "sum of")
    THEN <<Frame("header", detail, indent), Frame("node", detail, indent + 2)>>
    ELSE <<Frame("node", detail, indent + 1)>>

\* The recursive calls of a node, in the order they are made.
Calls(node, indent) ==
    IF ~HasDetails(node) THEN <<>>
    ELSE IF node.detailsKind = "dict" THEN <<Frame("node", node.details[1], indent + 1)>>
    ELSE LET sorted_details == SortedDetails(node.details)
         IN  IF DescHasLower(node.description, "sum of")
             THEN [i \in 1..Len(sorted_details) |-> Frame("node", sorted_details[i], indent + 1)]
             ELSE IF DescHasLower(node.description, "max of")
             THEN Flatten([i \in 1..Len(sorted_details) |-> MaxOfDetail(sorted_details[i], indent)])
             ELSE [i \in 1..Len(sorted_details) |-> Frame("node", sorted_details[i], indent + 1)]

\* _print_explanation up to the first call of _print_explanation_recursive.
ExplainCall ==
    /\ status = "ready"
    /\ IF explanation = EmptyExplanation
       THEN /\ out' = <<TitleLine, NoInfoLine>>
            /\ stack' = <<>>
            /\ status' = "done"
       ELSE /\ out' = <<TitleLine>>
            /\ stack' = <<Frame("node", explanation, 1)>>
            /\ status' = "walking"
    /\ UNCHANGED <<explanation, textVars, chunkVars, svcVars, appVars, pdfVars, mainVars>>

\* One call of _print_explanation_recursive, up to its first recursive
\* call, or one print of a field header.  Formatting the value 'N/A' of a
\* node without value with .4f raises, and so does the field name of a
\* detail whose details is a dict.
ExplainVisit ==
    /\ status = "walking"
    /\ stack # <<>>
    /\ LET frame  == Head(stack)
           node   == frame.node
           indent == frame.indent
       IN  IF frame.kind = "header" /\ FieldNameRaises(node)
           THEN /\ out' = out
                /\ stack' = <<>>
                /\ status' = "raised"
           ELSE IF frame.kind = "header"
           THEN /\ out' = Append(out, Line("header", indent + 1, _determine_field_name(node), NoNumber))
                /\ stack' = Tail(stack)
                /\ status' = status
           ELSE IF TooDeep(indent)
           THEN /\ out' = out
                /\ stack' = Tail(stack)
                /\ status' = status
           ELSE IF Printed(node, indent) /\ ~node.hasValue
           THEN /\ out' = out
                /\ stack' = <<>>
                /\ status' = "raised"
           ELSE /\ out' = IF Printed(node, indent) THEN Append(out, NodeLine(node, indent)) ELSE out
                /\ stack' = Calls(node, indent) \o Tail(stack)
                /\ status' = status
    /\ UNCHANGED <<explanation, textVars, chunkVars, svcVars, appVars, pdfVars, mainVars>>

\* The end of _print_explanation: the except clause when the walk raised,
\* then the closing print().
ExplainReturn ==
    /\ \/ status = "walking" /\ stack = <<>>
       \/ status = "raised"
    /\ out' = (IF status = "raised" THEN Append(out, ErrorLine) ELSE out) \o <<BlankLine>>
    /\ status' = IF status = "raised" THEN "failed" ELSE "done"
    /\ UNCHANGED <<explanation, stack, textVars, chunkVars, svcVars, appVars, pdfVars, mainVars>>

-----------------------------------------------------------------------------
(* SpecExplain: the decoder applied to explanations.                      *)

\* The descriptions of the nodes of a chain: the two combinators and a
\* weight of the content field.
ChainKinds == {"sum of", "max of", WeightContent}

\* The two combinators.
Combinators == {"sum of", "max of"}

\* The descriptions of the children of a fan, all in the vocabulary table.
ChildTerms == <<"tf", "idf", "norm", "boost", "match", "fieldWeight">>

\* The values of the children of a fan: a low and a high score.
ChildValues == {1, 2}

RECURSIVE Chain(_, _, _, _)
\* A path of nodes, each the only detail of the one above: the node at
\* level has description kinds[level], lacks its value when level is
\* missing, and holds the next node in a dict from level dictFrom on.
Chain(kinds, missing, dictFrom, level) ==
    Node(level # missing, 1, Desc(<<kinds[level]>>, FALSE),
         IF level = Len(kinds) THEN "none"
         ELSE IF level >= dictFrom THEN "dict" ELSE "list",
         IF level = Len(kinds) THEN <<>>
         ELSE <<Chain(kinds, missing, dictFrom, level + 1)>>)

\* The chains of at most depth nodes: every mix of descriptions with all
\* values and lists, and every mix of combinators with one value missing
\* or with dicts from one level on.
Chains(depth) ==
    UNION {
        {Chain(kinds, 0, d, 1) : kinds \in [1..d -> ChainKinds]}
            \cup {Chain(kinds, missing, d, 1) : kinds \in [1..d -> Combinators],
                                               missing \in 1..d}
            \cup {Chain(kinds, 0, dictFrom, 1) : kinds \in [1..d -> Combinators],
                                                dictFrom \in 1..(d - 1)}
        : d \in 1..depth}

RECURSIVE Wrap(_, _)
\* node below wraps nodes that each hold one detail.
Wrap(node, wraps) ==
    IF wraps = 0 THEN node
    ELSE Node(TRUE, 1, Desc(<<"n, number of documents">>, FALSE), "list",
              <<Wrap(node, wraps - 1)>>)

\* The children of a fan: child i has value values[i] and a description of
\* the vocabulary table, or the one with the fallback label at fallbackAt.
FanChildren(values, fallbackAt) ==
    [i \in 1..Len(values) |->
        Node(TRUE, values[i],
             Desc(<<IF i = fallbackAt THEN "n, number of documents" ELSE ChildTerms[i]>>, FALSE),
             "none", <<>>)]

\* A "sum of" node with these children, wraps levels below the entry.
Fan(values, fallbackAt, wraps) ==
    Wrap(Node(TRUE, 1, Desc(<<"sum of">>, TRUE), "list", FanChildren(values, fallbackAt)),
         wraps)

\* The fans of at most children children, at the entry, at the last level
\* whose children are decoded and at the level below it.
Fans(children) ==
    UNION {{Fan(values, fallbackAt, wraps) :
                values \in [1..n -> ChildValues], fallbackAt \in 0..n,
                wraps \in {0, DepthLimit - 2, DepthLimit - 1}}
           : n \in 1..children}

ExplainInit ==
    /\ explanation \in Chains(MaxDepth) \cup Fans(MaxChildren) \cup {EmptyExplanation}
    /\ stack = <<>>
    /\ out = <<>>
    /\ status = "ready"
    /\ TextIdle
    /\ ChunkIdle
    /\ SvcIdle
    /\ PdfIdle
    /\ MainIdle

ExplainNext == ExplainCall \/ ExplainVisit \/ ExplainReturn

SpecExplain == ExplainInit /\ [][ExplainNext]_vars

\* The interpreter runs the call to its end.
FairSpecExplain == SpecExplain /\ WF_vars(ExplainNext)

\* C12: a node without value is rendered with "N/A" and the decoding goes
\* on: the walk never raises.
ExplainNeverRaises == status # "raised"

\* The lines of nodes printed at indent.
NodeLinesAt(indent) ==
    SelectSeq(out, LAMBDA l : l.kind \in {"top", "sub"} /\ l.indent = indent)

\* The children of rank at most TopDetails among those of a fan.
TopRanked(children) == {i \in 1..Len(children) : RankOf(children, i) <= TopDetails}

\* lines are the lines, at indent, of the children of the set shown, in
\* the order of their ranks.
LinesAreOf(lines, children, shown, indent) ==
    /\ Len(lines) = Cardinality(shown)
    /\ \A i \in shown :
          lines[1 + Cardinality({j \in shown : RankOf(children, j) < RankOf(children, i)})]
              = NodeLine(children[i], indent)

RECURSIVE SumOfBelow(_, _)
\* The first node on the way down from node, itself at level, that is not
\* a node with the fallback label holding a single detail, and its level.
SumOfBelow(node, level) ==
    IF /\ node.description = Desc(<<"n, number of documents">>, FALSE)
       /\ node.detailsKind = "list"
       /\ Len(node.details) = 1
    THEN SumOfBelow(node.details[1], level + 1)
    ELSE [node |-> node, level |-> level]

\* The explanation decoded holds, below the entry, a "sum of" node with a
\* list of at least 4 children, each with a value and a description.
DecodedSumOf ==
    LET sum == SumOfBelow(explanation, 1).node
    IN  /\ status = "done"
        /\ DescHas(sum.description, "sum of")
        /\ sum.detailsKind = "list"
        /\ Len(sum.details) >= TopDetails
        /\ \A i \in 1..Len(sum.details) :
              sum.details[i].hasValue /\ sum.details[i].description # EmptyDesc

\* C14, as stated: a "sum of" node with n >= 4 children, each with a value
\* and a description, gets exactly 4 child lines, those of the 4 children
\* of largest value in descending order, whatever their descriptions.
SumOfRendersTopFour ==
    DecodedSumOf
    => LET sum      == SumOfBelow(explanation, 1)
           children == sum.node.details
       IN  LinesAreOf(NodeLinesAt(sum.level + 1), children, TopRanked(children),
                      sum.level + 1)

\* C14, amended: a "sum of" node reached at level L (the entry is level 1)
\* with n >= 4 children, each with a value and a description, gets when
\* L <= 3 the lines of those of its 4 children of largest value whose label
\* is neither empty nor the fallback, in descending order of value (equal
\* values in the order of the list), and no child line when L >= 4.
SumOfRendersTopFourLabelled ==
    DecodedSumOf
    => LET sum      == SumOfBelow(explanation, 1)
           children == sum.node.details
           shown    == IF sum.level + 1 > DepthLimit THEN {}
                       ELSE {i \in TopRanked(children) :
                                /\ _translate_explanation_description(children[i].description) # NoLabel
                                /\ _translate_explanation_description(children[i].description) # Fallback}
       IN  LinesAreOf(NodeLinesAt(sum.level + 1), children, shown, sum.level + 1)

\* A "sum of" node of more than 4 children at the entry, one of its 4
\* largest with the fallback label, has been decoded: 3 child lines.
SumOfWitness ==
    /\ DecodedSumOf
    /\ SumOfBelow(explanation, 1).level = 1
    /\ Len(explanation.details) > TopDetails
    /\ \E i \in TopRanked(explanation.details) :
          _translate_explanation_description(explanation.details[i].description) = Fallback
    /\ Len(NodeLinesAt(2)) = TopDetails - 1

RECURSIVE Depth(_)
\* The number of nodes on the longest path of an explanation.
Depth(node) ==
    IF ~HasDetails(node) THEN 1
    ELSE 1 + Depth(node.details[CHOOSE i \in 1..Len(node.details) :
                       \A j \in 1..Len(node.details) :
                           Depth(node.details[j]) <= Depth(node.details[i])])

\* C15: whatever the nesting and the combinators of the explanation, no
\* line of a node is printed deeper than level 4, and the walk ends.
DepthLimitedAndTerminates ==
    /\ [](\A i \in 1..Len(out) :
             out[i].kind \in {"top", "sub"} => out[i].indent <= DepthLimit)
    /\ <>(status \in {"done", "failed"})

\* An explanation nested deeper than 4 levels has been decoded down to
\* level 4 and the walk has ended.
DepthLimitWitness ==
    /\ status = "done"
    /\ Depth(explanation) > DepthLimit
    /\ NodeLinesAt(DepthLimit) # <<>>

-----------------------------------------------------------------------------
(* PDFProcessor.extract_text_from_pdf                                     *)
(*                                                                        *)
(* The file at pdf_path is missing, cannot be opened, or holds pages; a   *)
(* page is what page.extract_text() does on it: it raises, returns None,  *)
(* or returns a text.                                                     *)

MaxPages == 3        \* most pages of a PDF

\* The lengths of _generate_title.
TitleMinLine  == 5
TitleMaxLine  == 100
TitlePrefix   == 50

Page(kind, t) == [kind |-> kind, text |-> t]

NoTextPage  == Page("none", <<>>)
RaisingPage == Page("raises", <<>>)

\* The texts of pages: the empty text, whitespace, a special character
\* alone, words, and a keyword of the stalking group.
PageTexts ==
    {<<>>, <<" ">>, <<"-">>, <<"a">>, <<"a", "\n", "-", "b">>, <<"seu", "to", "king">>}

Pages == {NoTextPage, RaisingPage} \cup {Page("text", t) : t \in PageTexts}

Pdf(exists, opens, pages) == [exists |-> exists, opens |-> opens, pages |-> pages]

PdfPath == "laws.pdf"

\* text.split('\n')[0]
FirstLine(t) ==
    LET breaks == {i \in 1..Len(t) : t[i] = "\n"}
    IN  IF breaks = {} THEN t ELSE SubSeq(t, 1, FirstOf(breaks) - 1)

\* f"page {page_num}"
PageTitle(page_num) == <<"page", " ", ToString(page_num)>>

\* PDFProcessor._generate_title
_generate_title(t, page_num) ==
    LET first_line == Strip(FirstLine(t))
    IN  IF t = <<>> THEN PageTitle(page_num)
        ELSE IF first_line # <<>> /\ Len(first_line) > TitleMinLine
        THEN (IF Len(first_line) > TitleMaxLine
              THEN Slice(first_line, 0, TitleMaxLine) \o Ellipsis
              ELSE first_line)
        ELSE (IF Len(t) > TitlePrefix
              THEN Strip(Slice(t, 0, TitlePrefix)) \o Ellipsis
              ELSE Strip(Slice(t, 0, TitlePrefix)))

\* A record is made of whatever text the page returns, None apart.
YieldsRecordIfText(page) == page.kind = "text"

\* if text and text.strip(): ... if cleaned_text:
YieldsRecord(page) ==
    /\ page.kind = "text"
    /\ page.text # <<>>
    /\ Strip(page.text) # <<>>
    /\ clean_text(page.text) # <<>>

\* enumerate(pdf.pages): page numbers from 0.
EnumerateFrom0(handled) == handled

\* enumerate(pdf.pages, 1): the page number of the page after handled pages.
EnumerateFrom1(handled) == handled + 1

\* The exception of a page leaves the loop: no page is handled after it.
AbortAfterError(handled, pages) == Len(pages)

\* except ...: continue: the pages handled once the page after handled
\* pages has raised.
ContinueAfterError(handled, pages) == handled + 1

\* The Document of a page.
PageDocument(page, page_num) ==
    LET cleaned_text == clean_text(page.text)
    IN  Document(_generate_title(cleaned_text, page_num), cleaned_text, page_num,
                 categorize_content(cleaned_text), PdfPath)

Pdfs ==
    {Pdf(FALSE, FALSE, <<>>), Pdf(TRUE, FALSE, <<>>)}
        \cup {Pdf(TRUE, TRUE, pages) : pages \in Texts(Pages, MaxPages)}

PdfInit ==
    /\ pdf \in Pdfs
    /\ pages_done = 0
    /\ page_docs = <<>>
    /\ extracted = "ready"
    /\ TextIdle
    /\ ChunkIdle
    /\ SvcIdle
    /\ ExplIdle
    /\ MainIdle

\* extract_text_from_pdf up to the loop: a missing file returns at once,
\* a file that cannot be opened goes through the outer except.
ExtractOpen ==
    /\ extracted = "ready"
    /\ extracted' = IF pdf.exists /\ pdf.opens THEN "pages" ELSE "returned"
    /\ UNCHANGED <<pdf, pages_done, page_docs, textVars, chunkVars, svcVars, appVars, explVars, mainVars>>

\* One iteration of the loop over pdf.pages.
ExtractPage ==
    /\ extracted = "pages"
    /\ pages_done < Len(pdf.pages)
    /\ LET page == pdf.pages[pages_done + 1]
       IN  IF page.kind = "raises"
           THEN /\ pages_done' = ContinueAfterError(pages_done, pdf.pages)
                /\ page_docs' = page_docs
           ELSE /\ pages_done' = pages_done + 1
                /\ page_docs' = IF YieldsRecord(page)
                                THEN Append(page_docs, PageDocument(page, EnumerateFrom1(pages_done)))
                                ELSE page_docs
    /\ UNCHANGED <<pdf, extracted, textVars, chunkVars, svcVars, appVars, explVars, mainVars>>

\* return documents
ExtractReturn ==
    /\ extracted = "pages"
    /\ pages_done = Len(pdf.pages)
    /\ extracted' = "returned"
    /\ UNCHANGED <<pdf, pages_done, page_docs, textVars, chunkVars, svcVars, appVars, explVars, mainVars>>

PdfNext == ExtractOpen \/ ExtractPage \/ ExtractReturn

SpecPdf == PdfInit /\ [][PdfNext]_vars

\* The positions of the pages whose extracted text is present and not blank.
PagesWithText == {i \in 1..Len(pdf.pages) :
                     pdf.pages[i].kind = "text" /\ Strip(pdf.pages[i].text) # <<>>}

\* C16: the records returned are one for each page whose text is present
\* and not blank and none for the others; page_number is the position of
\* the page, from 1, and the records are in strictly ascending page_number.
OneRecordPerTextPage ==
    extracted = "returned"
    => /\ {page_docs[k].page_number : k \in 1..Len(page_docs)} = PagesWithText
       /\ Len(page_docs) = Cardinality(PagesWithText)
       /\ \A k \in 1..(Len(page_docs) - 1) :
             page_docs[k].page_number < page_docs[k + 1].page_number

\* A PDF of 3 pages whose page 2 has no text has been extracted: the
\* records of pages 1 and 3.
TextPagesWitness ==
    /\ extracted = "returned"
    /\ Len(pdf.pages) = 3
    /\ PagesWithText = {1, 3}
    /\ Len(page_docs) = 2

\* C17: a page whose extraction raises is skipped alone: every other page,
\* before and after it, has its record, and the call returns.
RaisingPageSkippedAlone ==
    (pages_done = Len(pdf.pages) /\ pdf.opens
        /\ \E i \in 1..Len(pdf.pages) : pdf.pages[i].kind = "raises")
    => /\ \A i \in PagesWithText : \E k \in 1..Len(page_docs) : page_docs[k].page_number = i
       /\ \A k \in 1..Len(page_docs) : pdf.pages[page_docs[k].page_number].kind # "raises"
       /\ ENABLED ExtractReturn \/ extracted = "returned"

\* The call has returned the records of the pages before and after a page
\* that raised.
RaisingPageWitness ==
    /\ extracted = "returned"
    /\ \E i \in 2..(Len(pdf.pages) - 1) :
          /\ pdf.pages[i].kind = "raises"
          /\ \E k \in 1..(Len(page_docs) - 1) :
                page_docs[k].page_number < i /\ page_docs[k + 1].page_number > i

\* C18: every record has a content that is not empty, and a page whose
\* text is empty once cleaned has no record.
ContentNeverEmpty ==
    /\ \A k \in 1..Len(page_docs) : page_docs[k].content # <<>>
    /\ extracted = "returned"
       => \A i \in 1..Len(pdf.pages) :
             (pdf.pages[i].kind = "text" /\ clean_text(pdf.pages[i].text) = <<>>)
             => \A k \in 1..Len(page_docs) : page_docs[k].page_number # i

\* Records have been returned of a PDF that holds a page of whitespace and
\* a page whose text is empty.
EmptyPagesWitness ==
    /\ extracted = "returned"
    /\ page_docs # <<>>
    /\ \E i, j \in 1..Len(pdf.pages) :
          pdf.pages[i] = Page("text", <<>>) /\ pdf.pages[j] = Page("text", <<" ">>)

-----------------------------------------------------------------------------
(* Claims on the index names and on the application.                      *)

\* The indices named by the requests of kind req of the last service call.
IndicesOf(req) ==
    {call.issued[i].index : i \in {j \in 1..Len(call.issued) : call.issued[j].req = req}}

\* C19: after an initialize_index that ingested the PDF and returned True,
\* the index that received the bulk submission is the index created with
\* the analyzer schema, which is the index that search, search_by_category
\* and the count query, and it holds every record of the PDF.
IngestedIndexIsSearchedIndex ==
    (call.op = "initialize_index" /\ call.ok /\ IndicesOf("bulk") # {})
    => /\ IndicesOf("bulk") = {ServiceIndexName}
       /\ IndicesOf("count") \subseteq {ServiceIndexName}
       /\ indices[ServiceIndexName].schema = "korean_legal"
       /\ \A k \in 1..Len(PdfDocuments) :
             \E i \in 1..Len(indices[ServiceIndexName].docs) :
                indices[ServiceIndexName].docs[i] = PdfDocuments[k]

\* What the caller of a search of the application gets.
CallerOutcome(c) == [raised |-> c.raised, ret |-> c.ret]

\* C20: search_documents and search_by_category called before initialize
\* has succeeded issue no request and signal the caller an error that
\* differs from what a search without results gives.
UninitializedSearchFailsLoudly ==
    (appCall.op \in {"search_documents", "search_by_category"} /\ ~appCall.initialized)
    => /\ appCall.issued = <<>>
       /\ CallerOutcome(appCall) # CallerOutcome(AfterSearch(appCall.op, NoCall))


\* ---------------------------------------------------------------------
\* Requests of one call
\* ---------------------------------------------------------------------

\* How many requests of one kind a call issued.
IssuedOf(c, req) == Cardinality({k \in DOMAIN c.issued : c.issued[k].req = req})

\* C21: there are no retries: a call of search or search_by_category
\* issues at most one search request, a run of initialize_index at most
\* one bulk submission, and a request that raised is the last request of
\* its call, issued once.
NoRetries ==
    /\ call.op \in {"search", "search_by_category"} => IssuedOf(call, "search") <= 1
    /\ call.op = "initialize_index" => IssuedOf(call, "bulk") <= 1
    /\ call.failed \in {"search", "bulk"} =>
          /\ IssuedOf(call, call.failed) = 1
          /\ call.issued[Len(call.issued)].req = call.failed

\* A search whose request raised, and a run whose bulk submission raised.
FailedRequestWitness ==
    /\ call.op \in {"search", "search_by_category", "initialize_index"}
    /\ call.failed \in {"search", "bulk"}
    /\ IssuedOf(call, call.failed) = 1

\* The requests whose exception ends a call.
CallLevelFailures == {"create", "bulk", "search", "reset"}

\* C22: a call-level failure of the index service (a disconnected client,
\* or an exception of a create, bulk or search request) never leaves
\* initialize_index, search, search_by_category or reset_index as an
\* exception: the search operations return the empty list, and
\* initialize_index and reset_index return False.
CallFailuresAreSwallowed ==
    (call.op # "none" /\ (~client \/ call.failed \in CallLevelFailures)) =>
        /\ ~call.raised
        /\ call.op \in {"search", "search_by_category"} => call.ret = <<>>
        /\ call.op \in {"initialize_index", "reset_index"} => ~call.ok

\* A call one of whose requests raised.
CallFailureWitness ==
    /\ client
    /\ call.op \in {"initialize_index", "reset_index", "search", "search_by_category"}
    /\ call.failed \in CallLevelFailures
    /\ ~call.raised

\* ---------------------------------------------------------------------
\* Creation and deletion of the index
\* ---------------------------------------------------------------------

\* The calls that ask for the creation of an index, and the index they name.
CreatesIndex(c) == c.op \in {"initialize_index", "create_index"}

CreatedName(c) == IF c.op = "create_index" THEN esIndexName ELSE ServiceIndexName

\* The index n lost its schema or one of its documents.
Lost(old, new) ==
    \/ ~new.exists
    \/ new.schema # old.schema
    \/ Len(new.docs) < Len(old.docs)
    \/ SubSeq(new.docs, 1, Len(old.docs)) # old.docs

\* A creation that leaves the index it names alone.
LeavesAlone(c, idx) ==
    /\ c.ok
    /\ c.indices = idx
    /\ \A k \in DOMAIN c.issued : c.issued[k].req \notin {"delete", "create"}

\* C23: asking for the creation of an index that exists, with recreate /
\* delete_existing false, succeeds and leaves the index unchanged (no
\* delete, no create, schema and documents untouched); an index is deleted
\* only by a creation with recreate true, by reset_index or by delete_index.
CreateKeepsExistingIndex ==
    /\ [](client =>
            /\ indices[ServiceIndexName].exists =>
                   LeavesAlone(CreateIndexWithNori(indices, FALSE, FALSE), indices)
            /\ indices[esIndexName].exists =>
                   LeavesAlone(CreateIndex(indices, FALSE, FALSE), indices))
    /\ [][/\ (/\ CreatesIndex(call') /\ ~call'.recreate /\ call'.failed # "create"
              /\ client /\ indices[CreatedName(call')].exists) =>
                 /\ IssuedOf(call', "delete") = 0
                 /\ IssuedOf(call', "create") = 0
                 /\ ~Lost(indices[CreatedName(call')], indices'[CreatedName(call')])
          /\ \A n \in IndexNames :
                 (indices[n].exists /\ Lost(indices[n], indices'[n])) =>
                     /\ IssuedOf(call', "delete") > 0
                     /\ \/ call'.op \in {"reset_index", "delete_index"}
                        \/ CreatesIndex(call') /\ call'.recreate]_vars

\* A creation with recreate false that found the index and its documents.
CreateOnExistingWitness ==
    /\ client
    /\ CreatesIndex(call) /\ ~call.recreate /\ call.failed # "create"
    /\ IssuedOf(call, "create") = 0
    /\ Len(call.issued) > 0
    /\ indices[CreatedName(call)].exists
    /\ indices[CreatedName(call)].docs # <<>>

\* ---------------------------------------------------------------------
\* Rejected documents
\* ---------------------------------------------------------------------

\* The sets of positions the index service can accept when it rejects some.
PartlyAccepted == (SUBSET (1..Len(PdfDocuments))) \ {1..Len(PdfDocuments)}

\* C24: when the index service rejects at least one document of a bulk
\* submission, bulk_index_documents returns False and the run of
\* initialize_index that issued it returns False, although the other
\* documents of the batch were accepted.
RejectionFailsTheRun ==
    /\ client => \A accepted \in PartlyAccepted :
           ~BulkIndexDocuments(indices, PdfDocuments, "partial", accepted).ok
    /\ (call.op = "initialize_index" /\ call.failed = "rejected") => ~call.ok

\* A run whose submission was rejected in part, the rest being stored.
RejectionWitness ==
    /\ call.op = "initialize_index" /\ call.failed = "rejected"
    /\ IssuedOf(call, "bulk") = 1
    /\ Len(indices[esIndexName].docs) = 1

\* ---------------------------------------------------------------------
\* Search by category
\* ---------------------------------------------------------------------

\* The documents of a category in the index the service searches.
InCategory(category) ==
    {i \in 1..Len(indices[ServiceIndexName].docs) :
        indices[ServiceIndexName].docs[i].category = category}

\* C25: search_by_category(category, size) issues a query that has a
\* term filter on the category and nothing else, and returns at most size
\* results, each of the requested category; for a category without
\* documents in the index it returns the empty list, and no request fails
\* because of it.
CategorySearchIsFiltered ==
    call.op = "search_by_category" =>
        /\ call.request = [term |-> "category", value |-> call.category,
                           size |-> call.size]
        /\ Len(call.ret) <= call.size
        /\ \A k \in 1..Len(call.ret) : call.ret[k].document.category = call.category
        /\ InCategory(call.category) = {} => call.ret = <<>> /\ ~call.raised
        /\ (client /\ call.failed = "none") =>
              Len(call.ret) = IF Cardinality(InCategory(call.category)) < call.size
                              THEN Cardinality(InCategory(call.category))
                              ELSE call.size

\* A category search cut to size, and one for a category without documents.
CategorySearchWitness ==
    /\ call.op = "search_by_category" /\ client /\ call.failed = "none"
    /\ \/ Cardinality(InCategory(call.category)) > call.size /\ Len(call.ret) = call.size
       \/ /\ indices[ServiceIndexName].docs # <<>>
          /\ InCategory(call.category) = {} /\ call.ret = <<>>

\* ---------------------------------------------------------------------
\* The interactive loop and the arguments of the program
\* ---------------------------------------------------------------------

IsQuit(line)  == LowerLine(line) \in {<<"quit">>, <<"exit">>, <<"q">>}

IsHelp(line)  == LowerLine(line) \in {<<"help">>, <<"h">>}

IsStats(line) == LowerLine(line) \in {<<"stats">>, <<"stat">>}

IsCommand(line) == IsQuit(line) \/ IsHelp(line) \/ IsStats(line)

\* category:<name>, with a name or without one.
IsCategoryLine(line) == line # <<>> /\ ~IsCommand(line) /\ line[1] = "category:"

NamesCategory(line) == IsCategoryLine(line) /\ CategoryOf(line) # <<>>

Interrupted == acts = <<Act("interrupt", <<>>)>>

\* What the last line read made the loop do; hinted: a category: line
\* without a name is answered by a hint instead of a text search.
LineDispatched(hinted) ==
    (argv = <<>> /\ mainPc \in {"loop", "done"} /\ ~Interrupted) =>
        /\ Len(acts) <= 1
        /\ user_input = <<>> => acts = <<>>
        /\ IsQuit(user_input) <=> (mainPc = "done" /\ is_initialized)
        /\ IsQuit(user_input) => acts = <<Act("quit", <<>>)>>
        /\ IsHelp(user_input) => acts = <<Act("_print_help", <<>>)>>
        /\ IsStats(user_input) =>
              acts = <<Act("_print_statistics", <<>>)>> /\ appCall.op = "get_statistics"
        /\ NamesCategory(user_input) =>
              /\ acts = <<Act("search_by_category", CategoryOf(user_input))>>
              /\ appCall.op = "search_by_category"
              /\ IssuedOf(appCall, "search") <= 1
        /\ (hinted /\ IsCategoryLine(user_input) /\ ~NamesCategory(user_input)) =>
              acts = <<Act("hint", <<>>)>>
        /\ (/\ user_input # <<>> /\ ~IsCommand(user_input) /\ ~NamesCategory(user_input)
            /\ ~(hinted /\ IsCategoryLine(user_input))) =>
              /\ acts = <<Act("search_documents", user_input)>>
              /\ appCall.op = "search_documents"
              /\ IssuedOf(appCall, "search") <= 1

\* What the arguments made the program do; guarded: the search is made
\* only when initialize succeeded.
ArgumentsSearched(guarded) ==
    argv # <<>> =>
        /\ mainPc # "loop"
        /\ mainPc = "done" =>
              IF guarded /\ ~is_initialized
              THEN acts = <<>>
              ELSE /\ acts = <<Act("search_documents", JoinArgs(argv))>>
                   /\ appCall.op = "search_documents"

\* C26 as stated: every line of the loop is dispatched to exactly one
\* action (a blank line to none, quit/exit/q to the end of the loop,
\* help/h to the help, stats/stat to the statistics, category:<name> with
\* a name to one category search, any other line to one text search), and
\* a program started with arguments makes exactly one text search and
\* never enters the loop.
EveryLineDispatchedAsStated == LineDispatched(FALSE) /\ ArgumentsSearched(FALSE)

\* C26, amended: as above, except that a category: line without a name
\* prints a hint and searches nothing, and that a program started with
\* arguments makes its one text search only when initialize succeeded
\* (otherwise it ends without searching).
EveryLineDispatched == LineDispatched(TRUE) /\ ArgumentsSearched(TRUE)

\* The loop answered category: without a name by a hint.
HintWitness ==
    /\ mainPc = "loop" /\ argv = <<>>
    /\ user_input = <<"category:">>
    /\ acts = <<Act("hint", <<>>)>>

\* ---------------------------------------------------------------------
\* The results the application prints and returns
\* ---------------------------------------------------------------------

\* C27: when the application is initialized and the service returns a
\* non-empty list of results, search_documents and search_by_category
\* print every result and return that same list, and printing a result
\* that carries no explanation does not fail.
ResultsPrintedAndReturned ==
    (/\ appCall.op \in {"search_documents", "search_by_category"}
     /\ appCall.initialized
     /\ call.ret # <<>>) =>
        /\ appCall.ret = call.ret
        /\ appCall.logged = "none"
        /\ appCall.printed # "first result"

\* ---------------------------------------------------------------------
\* Re-indexing and repeated ingestion
\* ---------------------------------------------------------------------

\* The documents of the index the bulk submissions go to.
Ingested == indices[esIndexName].docs

\* C28: after any sequence of reset_index and initialize_index(recreate=
\* True) runs on the same PDF, the index that holds the documents holds
\* exactly the records of the latest ingestion run: no two stored documents
\* have the same page_number and file_path, and after a successful run the
\* documents are those of that run.
ReindexKeepsLatestRunOnly ==
    /\ \A i, j \in DOMAIN Ingested :
          (/\ Ingested[i].page_number = Ingested[j].page_number
           /\ Ingested[i].file_path = Ingested[j].file_path) => i = j
    /\ (call.op = "initialize_index" /\ call.recreate /\ call.ok) =>
          Ingested = PdfDocuments

\* C29: in every sequence of initialize_index calls, with recreate false or
\* true, initialize_index returns True only when the index holds a record
\* for every page that the extraction of the PDF produces.
SuccessMeansEveryPageIndexed ==
    (call.op = "initialize_index" /\ call.ok) =>
        \A k \in DOMAIN PdfDocuments :
            \E i \in DOMAIN Ingested :
                /\ Ingested[i].page_number = PdfDocuments[k].page_number
                /\ Ingested[i].file_path = PdfDocuments[k].file_path

\* ---------------------------------------------------------------------
\* Field headers under "max of"
\* ---------------------------------------------------------------------

\* C30: under a "max of" node, every field-name header printed for a
\* "sum of" child is followed by the rendering of that child, called at
\* depth + 2: no header has just been printed when the call that follows it
\* returns at the depth limit without rendering anything.
HeaderIsFollowedByChild ==
    ~(/\ status = "walking"
      /\ out # <<>> /\ out[Len(out)].kind = "header"
      /\ stack # <<>> /\ Head(stack).kind = "node"
      /\ TooDeep(Head(stack).indent))
=============================================================================
